---- MODULE Spec2Model ----
(***************************************************************************)
(* Model of the tissue compatibility scorer of src/streamlit_app.py:       *)
(* evaluate_tissue_compatibility (lines 636-709) applied to the profile    *)
(* dictionaries of TISSUE_PROPERTIES (lines 712-763).                      *)
(*                                                                         *)
(* Numbers are exact rationals <<numerator, denominator>> in lowest terms  *)
(* with a positive denominator, or Python floats <<sign, m, e>> (binary64). *)
(* An operation on two rationals is exact; an operation that meets a float *)
(* is the float operation, the rational operand converted as Python        *)
(* converts an int or reads a literal.  The bundles that get_values builds *)
(* from the interpolation table are floats; the bundles drawn from small   *)
(* sets for evaluate_tissue_compatibility alone are rationals.  A dict is  *)
(* a function whose DOMAIN is its key set; a list is a sequence.           *)
(***************************************************************************)
EXTENDS Integers, Sequences, FiniteSets, TLC

VARIABLES
    profiles,         \* TISSUE_PROPERTIES, the profile dicts as the calls leave them
    last,             \* the call made last: its arguments, locals and outcome
    calls,            \* the number of calls made
    params,           \* the dict params of generate_complete_params, then STATISTICAL_PARAMS
    porosity,         \* the loop variable of line 74, the slider value of line 899
    results,          \* predictor_page: the bundle of line 922
    interpretations,  \* predictor_page: the labels of line 923
    rendered,         \* predictor_page: the compatibility cards shown, in order
    pc,               \* the position in the running function
    native_cartilage, \* the module's dict NATIVE_CARTILAGE of lines 35-40
    users,            \* the rows of table users of scartix.db, by username
    session_state     \* st.session_state: the keys set so far and their values

pageVars == <<porosity, results, interpretations, rendered, pc>>

\* the module's dict of native ranges, the database and the session
appVars == <<native_cartilage, users, session_state>>

vars == <<profiles, last, calls, params, porosity, results, interpretations, rendered, pc,
          native_cartilage, users, session_state>>

(***************************************************************************)
(* Arithmetic on numbers                                                   *)
(***************************************************************************)
Abs(n) == IF n < 0 THEN -n ELSE n

RECURSIVE GCD(_, _)
GCD(a, b) == IF b = 0 THEN a ELSE GCD(b, a % b)

\* n/d in lowest terms, d # 0
R(n, d) ==
    LET g == GCD(Abs(n), Abs(d))
        s == IF d < 0 THEN -1 ELSE 1
    IN  <<(s * n) \div g, (s * d) \div g>>

Num(n) == <<n, 1>>

(***************************************************************************)
(* Python floats (IEEE-754 binary64, round to nearest, ties to even).      *)
(*                                                                         *)
(* A natural number of any size is the sequence of its digits in base      *)
(* Base, least significant first and without leading zeros (zero is <<>>). *)
(* A float is <<sign, m, e>> with value (-1)^sign * m * 2^e, where m has   *)
(* exactly MantissaBits bits, or is zero (then sign = 0 and e = 0).  The   *)
(* values of this program stay far from the subnormal and the overflow     *)
(* range, which are not represented.                                       *)
(***************************************************************************)
Base == 32768
BaseBits == 15
MantissaBits == 53

RECURSIVE Big(_)
Big(n) == IF n = 0 THEN <<>> ELSE <<n % Base>> \o Big(n \div Base)

RECURSIVE BNorm(_)
BNorm(a) ==
    IF a = <<>> THEN a
    ELSE IF a[Len(a)] = 0 THEN BNorm(SubSeq(a, 1, Len(a) - 1)) ELSE a

Limb(a, i) == IF i <= Len(a) THEN a[i] ELSE 0

RECURSIVE BAddFrom(_, _, _, _)
BAddFrom(a, b, i, carry) ==
    IF i > Len(a) /\ i > Len(b)
    THEN IF carry = 0 THEN <<>> ELSE <<carry>>
    ELSE LET s == Limb(a, i) + Limb(b, i) + carry
         IN  <<s % Base>> \o BAddFrom(a, b, i + 1, s \div Base)

BAdd(a, b) == BAddFrom(a, b, 1, 0)

\* a - b for a >= b
RECURSIVE BSubFrom(_, _, _, _)
BSubFrom(a, b, i, borrow) ==
    IF i > Len(a) THEN <<>>
    ELSE LET s == a[i] - Limb(b, i) - borrow
         IN  IF s < 0 THEN <<s + Base>> \o BSubFrom(a, b, i + 1, 1)
             ELSE <<s>> \o BSubFrom(a, b, i + 1, 0)

BSub(a, b) == BNorm(BSubFrom(a, b, 1, 0))

\* -1, 0 or 1 as a < b, a = b or a > b
RECURSIVE BCmpFrom(_, _, _)
BCmpFrom(a, b, i) ==
    IF i = 0 THEN 0
    ELSE IF a[i] < b[i] THEN -1
    ELSE IF a[i] > b[i] THEN 1
    ELSE BCmpFrom(a, b, i - 1)

BCmp(a, b) ==
    IF Len(a) < Len(b) THEN -1
    ELSE IF Len(a) > Len(b) THEN 1
    ELSE BCmpFrom(a, b, Len(a))

\* a * k for 0 <= k < Base
RECURSIVE BMulSmallFrom(_, _, _, _)
BMulSmallFrom(a, k, i, carry) ==
    IF i > Len(a) THEN (IF carry = 0 THEN <<>> ELSE <<carry>>)
    ELSE LET s == a[i] * k + carry
         IN  <<s % Base>> \o BMulSmallFrom(a, k, i + 1, s \div Base)

BMulSmall(a, k) == IF k = 0 THEN <<>> ELSE BMulSmallFrom(a, k, 1, 0)

\* a * Base^n
BShiftLimbs(a, n) == IF a = <<>> THEN a ELSE [i \in 1..n |-> 0] \o a

RECURSIVE BMulFrom(_, _, _)
BMulFrom(a, b, i) ==
    IF i > Len(a) THEN <<>>
    ELSE BAdd(BShiftLimbs(BMulSmall(b, a[i]), i - 1), BMulFrom(a, b, i + 1))

BMul(a, b) == BMulFrom(a, b, 1)

RECURSIVE Pow2(_)
Pow2(n) == IF n = 0 THEN 1 ELSE 2 * Pow2(n - 1)

\* a * 2^n
BShl(a, n) == BShiftLimbs(BMulSmall(a, Pow2(n % BaseBits)), n \div BaseBits)

\* <<a div k, a mod k>> for 0 < k < Base, the digits of a from the i-th down
RECURSIVE BDivSmallFrom(_, _, _, _)
BDivSmallFrom(a, k, i, rem) ==
    IF i = 0 THEN <<<<>>, rem>>
    ELSE LET cur == rem * Base + a[i]
             rest == BDivSmallFrom(a, k, i - 1, cur % k)
         IN  <<Append(rest[1], cur \div k), rest[2]>>

BDivSmall(a, k) ==
    LET qr == BDivSmallFrom(a, k, Len(a), 0) IN <<BNorm(qr[1]), qr[2]>>

\* a div 2^n
BShr(a, n) ==
    IF n \div BaseBits >= Len(a) THEN <<>>
    ELSE BDivSmall(SubSeq(a, n \div BaseBits + 1, Len(a)), Pow2(n % BaseBits))[1]

RECURSIVE SmallBitLen(_)
SmallBitLen(n) == IF n = 0 THEN 0 ELSE 1 + SmallBitLen(n \div 2)

BitLen(a) == IF a = <<>> THEN 0 ELSE BaseBits * (Len(a) - 1) + SmallBitLen(a[Len(a)])

BOdd(a) == a # <<>> /\ a[1] % 2 = 1

\* one digit of a long division: <<q, r>> with r = q * d + r', q < 2^(i+1)
\* the q returned and r' the remainder returned, by shift and subtract
RECURSIVE BDivDigit(_, _, _, _)
BDivBit(i, q, r, d, di) ==
    IF BCmp(r, di) >= 0
    THEN BDivDigit(i - 1, q + Pow2(i), BSub(r, di), d)
    ELSE BDivDigit(i - 1, q, r, d)

BDivDigit(i, q, r, d) ==
    IF i < 0 THEN <<q, r>> ELSE BDivBit(i, q, r, d, BMulSmall(d, Pow2(i)))

\* long division in base Base from the j-th digit of the quotient down:
\* <<digits of r div d, r mod d>>
RECURSIVE BDivLong(_, _, _)
BDivPrepend(q, rest) == <<Append(rest[1], q), rest[2]>>

BDivNext(j, d, qr) == BDivPrepend(qr[1], BDivLong(j - 1, qr[2], d))

BDivLong(j, r, d) ==
    IF j < 0 THEN <<<<>>, r>>
    ELSE BDivNext(j, d, BDivDigit(BaseBits - 1, 0, r, BShiftLimbs(d, j)))

\* <<quotient, whether the division left a remainder>>
Inexact(qr, zero) == <<BNorm(qr[1]), qr[2] # zero>>

\* <<n div d, n mod d # 0>> for d # 0
BDiv(n, d) ==
    IF d = <<1>> THEN <<n, FALSE>>
    ELSE IF Len(d) = 1 THEN Inexact(BDivSmallFrom(n, d[1], Len(n), 0), 0)
    ELSE Inexact(BDivLong(Len(n) - Len(d), n, d), <<>>)

FZero == <<0, <<>>, 0>>

\* m + 1, renormalised when the carry gives it one bit more
FCarry(sign, m1, e) ==
    IF BitLen(m1) > MantissaBits THEN <<sign, BShr(m1, 1), e + 1>>
    ELSE <<sign, m1, e>>

\* q is top * 2^(extra-1) + low: top is the mantissa followed by the bit that
\* says half; round up above half, and to even on half
FRoundHalf(sign, q, sticky, e, extra, top) ==
    IF BOdd(top) /\ (sticky \/ BShl(top, extra - 1) # q \/ (top[1] \div 2) % 2 = 1)
    THEN FCarry(sign, BAdd(BShr(top, 1), <<1>>), e)
    ELSE <<sign, BShr(top, 1), e>>

\* q has extra bits more than a mantissa
FRoundAt(sign, q, sticky, e, extra) ==
    IF extra <= 0 THEN <<sign, BShl(q, -extra), e + extra>>
    ELSE FRoundHalf(sign, q, sticky, e + extra, extra, BShr(q, extra - 1))

\* the float nearest to (-1)^sign * (q + f) * 2^e, ties to even, where
\* 0 <= f < 1 and sticky says that f # 0 (then q has more bits than a mantissa)
FRoundBits(sign, q, sticky, e) ==
    IF q = <<>> THEN FZero
    ELSE FRoundAt(sign, q, sticky, e, BitLen(q) - MantissaBits)

FRoundQuotient(sign, qs, e) == FRoundBits(sign, qs[1], qs[2], e)

\* n * 2^s / d has one or two bits more than a mantissa
FRoundShift(sign, n, d, e, s) ==
    FRoundQuotient(sign,
                   BDiv(BShl(n, IF s > 0 THEN s ELSE 0), BShl(d, IF s < 0 THEN -s ELSE 0)),
                   e - s)

\* the float nearest to (-1)^sign * (n / d) * 2^e, ties to even
FRound(sign, n, d, e) ==
    IF n = <<>> THEN FZero
    ELSE FRoundShift(sign, n, d, e, (MantissaBits + 1) - (BitLen(n) - BitLen(d)))

IsFloat(x) == Len(x) = 3

\* the float of value (-1)^sign * n * 2^e for n below 2^53: nothing is rounded
FExact(sign, n, e) ==
    IF n = <<>> THEN FZero
    ELSE <<sign, BShl(n, MantissaBits - BitLen(n)), e + BitLen(n) - MantissaBits>>

\* the operand of a float operation: a float as it is; an exact number
\* <<n, 2^k>> (an int, or a literal like 0.75 that is a float's value) as the
\* float of the same value.  No other exact number meets a float.
Float(x) ==
    CASE IsFloat(x) -> x
      [] ~IsFloat(x) /\ x[2] = Pow2(SmallBitLen(x[2]) - 1) ->
            FExact(IF x[1] < 0 THEN 1 ELSE 0, Big(Abs(x[1])), 1 - SmallBitLen(x[2]))

\* the decimal literal n/d read as a float
Lit(n, d) == FRound(IF n < 0 THEN 1 ELSE 0, Big(Abs(n)), Big(d), 0)

FNeg(a) == IF a[2] = <<>> THEN a ELSE <<1 - a[1], a[2], a[3]>>

\* -1, 0, 1 as |a| < |b|, |a| = |b|, |a| > |b|
FCmpAbs(a, b) ==
    IF a[2] = <<>> THEN (IF b[2] = <<>> THEN 0 ELSE -1)
    ELSE IF b[2] = <<>> THEN 1
    ELSE IF a[3] < b[3] THEN -1
    ELSE IF a[3] > b[3] THEN 1
    ELSE BCmp(a[2], b[2])

FCmp(a, b) ==
    IF a[1] # b[1] THEN (IF a[1] = 1 THEN -1 ELSE 1)
    ELSE IF a[1] = 0 THEN FCmpAbs(a, b) ELSE FCmpAbs(b, a)

\* (-1)^sa * ma + (-1)^sb * mb, times 2^e
FAddAligned(sa, ma, sb, mb, e, cmp) ==
    FRoundBits(IF sa = sb \/ cmp >= 0 THEN sa ELSE sb,
               IF sa = sb THEN BAdd(ma, mb)
               ELSE IF cmp >= 0 THEN BSub(ma, mb) ELSE BSub(mb, ma),
               FALSE, e)

FAddShifted(sa, ma, sb, mb, e) == FAddAligned(sa, ma, sb, mb, e, BCmp(ma, mb))

FAddAt(a, b, e) ==
    FAddShifted(a[1], BShl(a[2], a[3] - e), b[1], BShl(b[2], b[3] - e), e)

FAdd(a, b) ==
    IF a[2] = <<>> THEN b
    ELSE IF b[2] = <<>> THEN a
    ELSE FAddAt(a, b, IF a[3] < b[3] THEN a[3] ELSE b[3])

FSub(a, b) == FAdd(a, FNeg(b))

FMul(a, b) ==
    FRoundBits((a[1] + b[1]) % 2, BMul(a[2], b[2]), FALSE, a[3] + b[3])

\* a / b for b # 0
FDiv(a, b) ==
    FRound((a[1] + b[1]) % 2, a[2], b[2], a[3] - b[3])

(***************************************************************************)
(* Python's arithmetic on an int, a float or an exact number               *)
(***************************************************************************)
Mixed(a, b) == IsFloat(a) \/ IsFloat(b)

RAdd(a, b) ==
    IF Mixed(a, b) THEN FAdd(Float(a), Float(b))
    ELSE R(a[1] * b[2] + b[1] * a[2], a[2] * b[2])
RSub(a, b) ==
    IF Mixed(a, b) THEN FSub(Float(a), Float(b))
    ELSE R(a[1] * b[2] - b[1] * a[2], a[2] * b[2])
RMul(a, b) ==
    IF Mixed(a, b) THEN FMul(Float(a), Float(b))
    ELSE R(a[1] * b[1], a[2] * b[2])
RDiv(a, b) ==
    IF Mixed(a, b) THEN FDiv(Float(a), Float(b))
    ELSE R(a[1] * b[2], a[2] * b[1])
RLt(a, b) ==
    IF Mixed(a, b) THEN FCmp(Float(a), Float(b)) < 0
    ELSE a[1] * b[2] < b[1] * a[2]
RLe(a, b) ==
    IF Mixed(a, b) THEN FCmp(Float(a), Float(b)) <= 0
    ELSE a[1] * b[2] <= b[1] * a[2]
REq(a, b) ==
    IF Mixed(a, b) THEN FCmp(Float(a), Float(b)) = 0
    ELSE a = b
RGe(a, b) == RLe(b, a)
RMax(a, b) == IF RLt(a, b) THEN b ELSE a
RMin(a, b) == IF RLt(b, a) THEN b ELSE a

\* the outcome of an expression that raises ZeroDivisionError
ZeroDivisionError == <<0, 0>>

(***************************************************************************)
(* The catalog, lines 712-763 (the second definition, which replaces the   *)
(* one of lines 593-634 when the module is executed).                      *)
(***************************************************************************)
Req(lo, hi) == [min |-> lo, optimal |-> hi]

TISSUE_PROPERTIES ==
    [articular_cartilage |->
        [stress |-> Req(Num(5), Num(7)),
         strain |-> Req(Num(7000), Num(8500)),
         flow_rate |-> Req(R(2, 10), R(25, 100)),
         shear_stress |-> Req(Num(280), Num(320)),
         mechanical_strength_threshold |-> 70,
         cell_migration_threshold |-> 65,
         description |-> "Load-bearing cartilage in joints",
         critical_factors |-> <<"stress", "shear_stress", "mechanical_strength">>],
     meniscus |->
        [stress |-> Req(Num(4), Num(6)),
         strain |-> Req(Num(6500), Num(8000)),
         flow_rate |-> Req(R(15, 100), R(2, 10)),
         shear_stress |-> Req(Num(250), Num(300)),
         mechanical_strength_threshold |-> 65,
         cell_migration_threshold |-> 60,
         description |-> "Knee meniscus tissue",
         critical_factors |-> <<"stress", "strain", "mechanical_strength">>],
     bone_tissue |->
        [stress |-> Req(Num(15), Num(20)),
         strain |-> Req(Num(2000), Num(3000)),
         flow_rate |-> Req(R(1, 10), R(15, 100)),
         shear_stress |-> Req(Num(400), Num(500)),
         mechanical_strength_threshold |-> 80,
         cell_migration_threshold |-> 55,
         description |-> "Bone tissue with high mechanical demands",
         critical_factors |-> <<"stress", "strain", "mechanical_strength">>],
     skin |->
        [stress |-> Req(Num(1), Num(2)),
         strain |-> Req(Num(10000), Num(12000)),
         flow_rate |-> Req(R(3, 10), R(4, 10)),
         shear_stress |-> Req(Num(100), Num(150)),
         mechanical_strength_threshold |-> 50,
         cell_migration_threshold |-> 75,
         description |-> "Dermal tissue with high elasticity requirements",
         critical_factors |-> <<"strain", "flow_rate", "cell_migration">>],
     blood_vessel |->
        [stress |-> Req(Num(2), Num(3)),
         strain |-> Req(Num(9000), Num(11000)),
         flow_rate |-> Req(R(4, 10), R(5, 10)),
         shear_stress |-> Req(Num(200), Num(250)),
         mechanical_strength_threshold |-> 60,
         cell_migration_threshold |-> 70,
         description |-> "Vascular tissue with specific flow requirements",
         critical_factors |-> <<"flow_rate", "shear_stress", "cell_migration">>]]

Tissues == DOMAIN TISSUE_PROPERTIES

(***************************************************************************)
(* evaluate_tissue_compatibility, lines 636-709                            *)
(***************************************************************************)
\* the property names of the loop of line 651, in its order
TraditionalProperties == <<"stress", "strain", "flow_rate", "shear_stress">>

Range(s) == {s[i] : i \in DOMAIN s}

\* dict.get(key, default)
Get(d, key, default) == IF key \in DOMAIN d THEN d[key] ELSE default

\* PropertyScore without the max(0, ...) of line 662
PropertyScore_NoClamp(actual_value, min_req, optimal_req) ==
    IF RGe(actual_value, optimal_req) THEN Num(1)
    ELSE IF RGe(actual_value, min_req)
         THEN RAdd(RMul(RDiv(RSub(actual_value, min_req),
                             RSub(optimal_req, min_req)), R(1, 2)), R(1, 2))
         ELSE IF REq(min_req, Num(0)) THEN ZeroDivisionError
              ELSE RMul(RDiv(actual_value, min_req), R(1, 2))

\* PropertyScore with 0 for every value below min
PropertyScore_ZeroBelowMin(actual_value, min_req, optimal_req) ==
    IF RGe(actual_value, optimal_req) THEN Num(1)
    ELSE IF RGe(actual_value, min_req)
         THEN RAdd(RMul(RDiv(RSub(actual_value, min_req),
                             RSub(optimal_req, min_req)), R(1, 2)), R(1, 2))
         ELSE Num(0)

\* lines 657-662: the score of one of the four traditional properties
PropertyScore(actual_value, min_req, optimal_req) ==
    IF RGe(actual_value, optimal_req) THEN Num(1)
    ELSE IF RGe(actual_value, min_req)
         THEN RAdd(RMul(RDiv(RSub(actual_value, min_req),
                             RSub(optimal_req, min_req)), R(1, 2)), R(1, 2))
         ELSE IF REq(min_req, Num(0)) THEN ZeroDivisionError
              ELSE RMax(Num(0), RMul(RDiv(actual_value, min_req), R(1, 2)))

\* MechanicalStrengthScore with > where line 667-671 have >=
MechanicalStrengthScore_StrictBounds(mech_strength) ==
    IF RLt(Num(80), mech_strength) THEN Num(1)
    ELSE IF RLt(Num(60), mech_strength) THEN R(75, 100)
    ELSE IF RLt(Num(40), mech_strength) THEN R(5, 10)
    ELSE R(25, 100)

\* lines 667-674
MechanicalStrengthScore(mech_strength) ==
    IF RGe(mech_strength, Num(80)) THEN Num(1)
    ELSE IF RGe(mech_strength, Num(60)) THEN R(75, 100)
    ELSE IF RGe(mech_strength, Num(40)) THEN R(5, 10)
    ELSE R(25, 100)

\* lines 679-686
CellMigrationScore(cell_migr) ==
    IF RGe(cell_migr, Num(75)) THEN Num(1)
    ELSE IF RGe(cell_migr, Num(60)) THEN R(75, 100)
    ELSE IF RGe(cell_migr, Num(45)) THEN R(5, 10)
    ELSE R(25, 100)

\* lines 648-686: the dict scores
ComputeScores(scaffold_props, tissue_reqs) ==
    LET keys == {p \in Range(TraditionalProperties) :
                    p \in DOMAIN scaffold_props /\ p \in DOMAIN tissue_reqs}
                \cup ({"mechanical_strength", "cell_migration"} \cap DOMAIN scaffold_props)
    IN  [p \in keys |->
            IF p = "mechanical_strength"
            THEN MechanicalStrengthScore(scaffold_props[p])
            ELSE IF p = "cell_migration"
            THEN CellMigrationScore(scaffold_props[p])
            ELSE PropertyScore(scaffold_props[p], tissue_reqs[p].min,
                               tissue_reqs[p].optimal)]

\* lines 689-695: the list critical_factors after the two conditional appends
AugmentedCriticalFactors(scaffold_props, tissue_reqs) ==
    LET declared == Get(tissue_reqs, "critical_factors", <<>>)
        withMech == IF RGe(Get(scaffold_props, "mechanical_strength", Num(0)), Num(70))
                    THEN Append(declared, "mechanical_strength") ELSE declared
    IN  IF RGe(Get(scaffold_props, "cell_migration", Num(0)), Num(65))
        THEN Append(withMech, "cell_migration") ELSE withMech

\* CriticalSum without the factor 2 of line 698
RECURSIVE CriticalSum_Unweighted(_, _)
CriticalSum_Unweighted(critical_factors, scores) ==
    IF critical_factors = <<>> THEN Num(0)
    ELSE LET f == critical_factors[Len(critical_factors)]
             front == CriticalSum_Unweighted(
                          SubSeq(critical_factors, 1, Len(critical_factors) - 1), scores)
         IN  IF f \in DOMAIN scores THEN RAdd(front, scores[f]) ELSE front

\* sum(scores[f] * 2 for f in critical_factors if f in scores), line 698: the
\* terms are added from the first to the last
RECURSIVE CriticalSum(_, _)
CriticalSum(critical_factors, scores) ==
    IF critical_factors = <<>> THEN Num(0)
    ELSE LET f == critical_factors[Len(critical_factors)]
             front == CriticalSum(SubSeq(critical_factors, 1, Len(critical_factors) - 1),
                                  scores)
         IN  IF f \in DOMAIN scores THEN RAdd(front, RMul(scores[f], Num(2))) ELSE front

\* the keys of scores in the order lines 651-686 insert them
ScoreOrder ==
    <<"stress", "strain", "flow_rate", "shear_stress", "mechanical_strength",
      "cell_migration">>

\* sum(scores[p] for p in scores if p in keys) over the first i keys, added
\* from the first to the last
RECURSIVE SumFirst(_, _, _)
SumFirst(i, keys, scores) ==
    IF i = 0 THEN Num(0)
    ELSE IF ScoreOrder[i] \in keys
         THEN RAdd(SumFirst(i - 1, keys, scores), scores[ScoreOrder[i]])
         ELSE SumFirst(i - 1, keys, scores)

SumScores(keys, scores) == SumFirst(Len(ScoreOrder), keys, scores)

\* len([f for f in critical_factors if f in scores]), line 700
RECURSIVE CriticalCount(_, _)
CriticalCount(critical_factors, scores) ==
    IF critical_factors = <<>> THEN 0
    ELSE (IF Head(critical_factors) \in DOMAIN scores THEN 1 ELSE 0)
         + CriticalCount(Tail(critical_factors), scores)

\* TotalWeight as the number of scores, the doubled weights left out
TotalWeight_ScoresOnly(critical_factors, scores) == Cardinality(DOMAIN scores)

\* TotalWeight counting every critical factor, scored or not
TotalWeight_Unfiltered(critical_factors, scores) ==
    Len(critical_factors) * 2 + (Cardinality(DOMAIN scores) - Len(critical_factors))

\* line 700
TotalWeight(critical_factors, scores) ==
    CriticalCount(critical_factors, scores) * 2
    + (Cardinality(DOMAIN scores) - CriticalCount(critical_factors, scores))

\* lines 697-703: final_score before the adjustment of line 706
WeightedFinalScore(critical_factors, scores) ==
    IF critical_factors # <<>>
    THEN LET weighted_score ==
                 RAdd(CriticalSum(critical_factors, scores),
                      SumScores({p \in DOMAIN scores : p \notin Range(critical_factors)},
                                scores))
             total_weight == TotalWeight(critical_factors, scores)
         IN  IF total_weight = 0 THEN ZeroDivisionError
             ELSE RDiv(weighted_score, Num(total_weight))
    ELSE IF Cardinality(DOMAIN scores) = 0 THEN ZeroDivisionError
         ELSE RDiv(SumScores(DOMAIN scores, scores), Num(Cardinality(DOMAIN scores)))

\* ApplyPenalty with the conditions read of the keys the bundle has
ApplyPenalty_PresentKeysOnly(final_score, scaffold_props) ==
    IF \/ /\ "mechanical_strength" \in DOMAIN scaffold_props
          /\ RLt(scaffold_props["mechanical_strength"], Num(40))
       \/ /\ "cell_migration" \in DOMAIN scaffold_props
          /\ RLt(scaffold_props["cell_migration"], Num(45))
    THEN RMul(final_score, R(5, 10))
    ELSE final_score

\* ApplyPenalty with the factor applied once per condition met
ApplyPenalty_PerCondition(final_score, scaffold_props) ==
    LET once == IF RLt(Get(scaffold_props, "mechanical_strength", Num(0)), Num(40))
                THEN RMul(final_score, R(5, 10)) ELSE final_score
    IN  IF RLt(Get(scaffold_props, "cell_migration", Num(0)), Num(45))
        THEN RMul(once, R(5, 10)) ELSE once

\* lines 705-707
ApplyPenalty(final_score, scaffold_props) ==
    IF \/ RLt(Get(scaffold_props, "mechanical_strength", Num(0)), Num(40))
       \/ RLt(Get(scaffold_props, "cell_migration", Num(0)), Num(45))
    THEN RMul(final_score, R(5, 10))
    ELSE final_score

\* The whole call: what it returns or raises, and the profile dict it leaves.
evaluate_tissue_compatibility(scaffold_props, tissue_reqs) ==
    LET scores == ComputeScores(scaffold_props, tissue_reqs)
        critical_factors == AugmentedCriticalFactors(scaffold_props, tissue_reqs)
        weighted == WeightedFinalScore(critical_factors, scores)
        left == IF "critical_factors" \in DOMAIN tissue_reqs
                THEN [tissue_reqs EXCEPT !.critical_factors = critical_factors]
                ELSE tissue_reqs
    IN  IF \E p \in DOMAIN scores : scores[p] = ZeroDivisionError
        THEN [outcome |-> "ZeroDivisionError", tissue_reqs |-> tissue_reqs]
        ELSE IF weighted = ZeroDivisionError
        THEN [outcome |-> "ZeroDivisionError", tissue_reqs |-> left]
        ELSE [outcome |-> "returned",
              final_score |-> ApplyPenalty(weighted, scaffold_props),
              scores |-> scores,
              weighted_final |-> weighted,
              critical_factors |-> critical_factors,
              tissue_reqs |-> left]

(***************************************************************************)
(* Inputs                                                                  *)
(***************************************************************************)
Absent == <<>>

AllProperties ==
    {"stress", "strain", "flow_rate", "shear_stress", "mechanical_strength",
     "cell_migration"}

\* the dict with the keys whose value is given
MakeBundle(stress, strain, flow_rate, shear_stress, mechanical_strength, cell_migration) ==
    LET full == [stress |-> stress, strain |-> strain, flow_rate |-> flow_rate,
                 shear_stress |-> shear_stress,
                 mechanical_strength |-> mechanical_strength,
                 cell_migration |-> cell_migration]
    IN  [p \in {q \in AllProperties : full[q] # Absent} |-> full[p]]

\* complete bundles, all six values non-negative
StressValues == {Num(3), Num(20)}
MechanicalValues == {Num(30), Num(50), Num(70), Num(80)}
MigrationValues == {Num(30), Num(50), Num(75)}

ScaffoldBundles ==
    {MakeBundle(st, Num(8000), R(1, 2), Num(300), ms, cm) :
        st \in StressValues, ms \in MechanicalValues, cm \in MigrationValues}

MaxCalls == 2

NoCall == [tissue |-> "", scaffold_props |-> <<>>, result |-> [outcome |-> "none"]]

(***************************************************************************)
(* Spec: the catalog profiles, scored again and again by successive calls  *)
(***************************************************************************)
\* lines 35-40
NATIVE_CARTILAGE ==
    [stress_range |-> <<Lit(15, 10), Lit(30, 10)>>,
     strain_range |-> <<Num(7500), Num(8500)>>,
     flow_rate_range |-> <<Lit(4, 10), Lit(6, 10)>>,
     shear_stress_range |-> <<Num(150), Num(250)>>]

\* no session is open and no user is registered
NoSession ==
    /\ users = <<>>
    /\ session_state = <<>>

\* the variables of the table and of the page, in the specifications that
\* call evaluate_tissue_compatibility alone
NoPage ==
    /\ native_cartilage = NATIVE_CARTILAGE
    /\ NoSession
    /\ params = <<>>
    /\ porosity = 0
    /\ results = <<>>
    /\ interpretations = <<>>
    /\ rendered = <<>>
    /\ pc = "call"

Init ==
    /\ profiles = TISSUE_PROPERTIES
    /\ last = NoCall
    /\ calls = 0
    /\ NoPage

\* one call evaluate_tissue_compatibility(b, profiles[t]), as at lines 998 and 1060
Evaluate(t, b) ==
    LET r == evaluate_tissue_compatibility(b, profiles[t])
    IN  /\ profiles' = [profiles EXCEPT ![t] = r.tissue_reqs]
        /\ last' = [tissue |-> t, scaffold_props |-> b, result |-> r]

Call ==
    /\ calls < MaxCalls
    /\ \E t \in Tissues, b \in ScaffoldBundles : Evaluate(t, b)
    /\ calls' = calls + 1
    /\ UNCHANGED <<params, pageVars, appVars>>

Next == Call

Spec == Init /\ [][Next]_vars

(***************************************************************************)
(* SpecUnit: evaluate_tissue_compatibility as a function of its two        *)
(* arguments: the caller builds a profile dict, one of the catalog's or    *)
(* one of three smaller ones that exercise the optional keys (line 652:    *)
(* property_name in tissue_reqs, line 689: tissue_reqs.get), and scores    *)
(* one bundle with it.                                                     *)
(***************************************************************************)
UnitProfiles ==
    [weighted_example |->
        [stress |-> Req(Num(1), Num(2)),
         strain |-> Req(Num(2), Num(4)),
         critical_factors |-> <<"stress">>],
     empty_critical |->
        [stress |-> Req(Num(1), Num(2)),
         strain |-> Req(Num(2), Num(4)),
         flow_rate |-> Req(R(1, 10), R(3, 10)),
         shear_stress |-> Req(Num(100), Num(200)),
         critical_factors |-> <<>>],
     no_critical_key |->
        [stress |-> Req(Num(1), Num(2)),
         strain |-> Req(Num(2), Num(4)),
         flow_rate |-> Req(R(1, 10), R(3, 10)),
         shear_stress |-> Req(Num(100), Num(200))]]

UnitObjects == TISSUE_PROPERTIES @@ UnitProfiles

\* where a value lies with respect to a requirement {min, optimal}
Positions == {"absent", "negative", "below", "min", "between", "optimal"}

ValueAt(pos, req) ==
    CASE pos = "absent" -> Absent
      [] pos = "negative" -> RSub(Num(0), req.min)
      [] pos = "below" -> RDiv(req.min, Num(2))
      [] pos = "min" -> req.min
      [] pos = "between" -> RDiv(RAdd(req.min, req.optimal), Num(2))
      [] pos = "optimal" -> req.optimal

ReqOf(tissue_reqs, p) == Get(tissue_reqs, p, Req(Num(1), Num(2)))

CoarsePercentages == {Absent, Num(30), Num(80)}

Percentages ==
    {Absent} \cup {Num(v) : v \in {0, 39, 40, 44, 45, 59, 60, 64, 65, 69, 70, 74, 75,
                                   79, 80, 100}}

\* the bundles a profile is scored with: every position of the four
\* traditional properties with coarse percentages, and every percentage with
\* the traditional properties all absent or all between min and optimal
UnitBundles(tissue_reqs) ==
    {MakeBundle(ValueAt(a, ReqOf(tissue_reqs, "stress")),
                ValueAt(b, ReqOf(tissue_reqs, "strain")),
                ValueAt(c, ReqOf(tissue_reqs, "flow_rate")),
                ValueAt(d, ReqOf(tissue_reqs, "shear_stress")), ms, cm) :
        a \in Positions, b \in Positions, c \in Positions, d \in Positions,
        ms \in CoarsePercentages, cm \in CoarsePercentages}
    \cup
    {MakeBundle(ValueAt(a, ReqOf(tissue_reqs, "stress")),
                ValueAt(a, ReqOf(tissue_reqs, "strain")),
                ValueAt(a, ReqOf(tissue_reqs, "flow_rate")),
                ValueAt(a, ReqOf(tissue_reqs, "shear_stress")), ms, cm) :
        a \in {"absent", "between"}, ms \in Percentages, cm \in Percentages}

InitUnit ==
    /\ profiles = <<>>
    /\ last = NoCall
    /\ calls = 0
    /\ NoPage

\* the caller builds the profile dict it is going to score
BuildProfile ==
    /\ profiles = <<>>
    /\ \E t \in DOMAIN UnitObjects : profiles' = [n \in {t} |-> UnitObjects[t]]
    /\ UNCHANGED <<last, calls, params, pageVars, appVars>>

UnitCall ==
    /\ calls = 0
    /\ \E t \in DOMAIN profiles : \E b \in UnitBundles(profiles[t]) : Evaluate(t, b)
    /\ calls' = 1
    /\ UNCHANGED <<params, pageVars, appVars>>

NextUnit == BuildProfile \/ UnitCall

SpecUnit == InitUnit /\ [][NextUnit]_vars

(***************************************************************************)
(* The interpolation table: generate_complete_params, lines 43-92          *)
(***************************************************************************)
\* a float literal n/d of the source

Stat(mean, std) == [mean |-> mean, std |-> std]

\* line 76 on: the properties in the order of the inner loop
TableProperties ==
    <<"stress", "strain", "flow_rate", "shear_stress", "mechanical_strength",
      "cell_migration">>

\* porosities as list(range(30, 90))
porosities_WithoutLast == [i \in 1..60 |-> 29 + i]

\* line 45: list(range(30, 91))
porosities == [i \in 1..61 |-> 29 + i]

\* lines 47-72
key_points ==
    (30 :> [stress |-> Stat(Lit(58913, 10000), Lit(11549, 10000)),
            strain |-> Stat(Lit(80588783, 10000), Lit(16481018, 10000)),
            flow_rate |-> Stat(Lit(3, 10), Lit(8, 100)),
            shear_stress |-> Stat(Num(300), Num(20)),
            mechanical_strength |-> Stat(Lit(100, 1), Lit(52, 10)),
            cell_migration |-> Stat(Lit(65, 1), Lit(81, 10))])
    @@
    (60 :> [stress |-> Stat(Lit(19460, 10000), Lit(3939, 10000)),
            strain |-> Stat(Lit(80499094, 10000), Lit(16288954, 10000)),
            flow_rate |-> Stat(Lit(5, 10), Lit(1, 10)),
            shear_stress |-> Stat(Num(200), Num(15)),
            mechanical_strength |-> Stat(Lit(70, 1), Lit(48, 10)),
            cell_migration |-> Stat(Lit(85, 1), Lit(74, 10))])
    @@
    (90 :> [stress |-> Stat(Lit(1197, 10000), Lit(242, 10000)),
            strain |-> Stat(Lit(80415586, 10000), Lit(16469436, 10000)),
            flow_rate |-> Stat(Lit(7, 10), Lit(12, 100)),
            shear_stress |-> Stat(Num(150), Num(10)),
            mechanical_strength |-> Stat(Lit(40, 1), Lit(39, 10)),
            cell_migration |-> Stat(Lit(95, 1), Lit(88, 10))])

\* AnchorPair with < where line 76 has <=
AnchorPair_StrictAtBoundary(p) == IF p < 60 THEN <<30, 60>> ELSE <<60, 90>>

\* lines 76-79: p1, p2
AnchorPair(p) == IF p <= 60 THEN <<30, 60>> ELSE <<60, 90>>

\* line 81: the int / int division, a float
InterpolationFactor(p, p1, p2) ==
    IF p2 - p1 = 0 THEN ZeroDivisionError
    ELSE FDiv(Float(Num(p - p1)), Float(Num(p2 - p1)))

\* lines 85 and 86: a + factor * (b - a)
Interpolate(a, b, factor) == RAdd(a, RMul(factor, RSub(b, a)))

\* lines 84-87 for the anchor pair (p1, p2): the entry of one property
InterpolatedEntry(p, p1, p2, prop) ==
    LET factor == InterpolationFactor(p, p1, p2)
    IN  Stat(Interpolate(key_points[p1][prop].mean, key_points[p2][prop].mean, factor),
             Interpolate(key_points[p1][prop].std, key_points[p2][prop].std, factor))

\* lines 43-89: the dict returned
generate_complete_params ==
    [p \in Range(porosities) |->
        [prop \in Range(TableProperties) |->
            InterpolatedEntry(p, AnchorPair(p)[1], AnchorPair(p)[2], prop)]]

\* line 92
STATISTICAL_PARAMS == generate_complete_params

(***************************************************************************)
(* SpecTable: the loops of generate_complete_params, one assignment a step *)
(***************************************************************************)
InitTable ==
    /\ params = <<>>
    /\ porosity = 0
    /\ pc = "line 74"
    /\ last = NoCall
    /\ calls = 0
    /\ profiles = <<>>
    /\ results = <<>>
    /\ interpretations = <<>>
    /\ rendered = <<>>
    /\ native_cartilage = NATIVE_CARTILAGE
    /\ NoSession

\* lines 74-81: the next porosity of the outer loop, its empty entry, p1, p2
\* and factor
NextPorosity ==
    /\ pc = "line 74"
    /\ calls < Len(porosities)
    /\ LET p == porosities[calls + 1]
           pair == AnchorPair(p)
       IN  /\ porosity' = p
           /\ params' = params @@ (p :> <<>>)
           /\ last' = [p1 |-> pair[1], p2 |-> pair[2],
                       factor |-> InterpolationFactor(p, pair[1], pair[2])]
    /\ calls' = calls + 1
    /\ pc' = "line 83"
    /\ UNCHANGED <<profiles, results, interpretations, rendered, appVars>>

\* lines 83-87: the next property of the inner loop
NextProperty ==
    /\ pc = "line 83"
    /\ LET prop == TableProperties[Cardinality(DOMAIN params[porosity]) + 1]
           entry == Stat(Interpolate(key_points[last.p1][prop].mean,
                                     key_points[last.p2][prop].mean, last.factor),
                         Interpolate(key_points[last.p1][prop].std,
                                     key_points[last.p2][prop].std, last.factor))
       IN  /\ params' = [params EXCEPT ![porosity] = @ @@ (prop :> entry)]
           /\ pc' = IF Cardinality(DOMAIN params[porosity]) + 1 = Len(TableProperties)
                    THEN "line 74" ELSE "line 83"
    /\ UNCHANGED <<porosity, last, calls, profiles, results, interpretations, rendered,
                   appVars>>

\* line 89
ReturnParams ==
    /\ pc = "line 74"
    /\ calls = Len(porosities)
    /\ pc' = "line 92"
    /\ UNCHANGED <<params, porosity, last, calls, profiles, results, interpretations,
                   rendered, appVars>>

NextTable == NextPorosity \/ NextProperty \/ ReturnParams

SpecTable == InitTable /\ [][NextTable]_vars

(***************************************************************************)
(* TPMSScaffoldSimulator, lines 143-280                                    *)
(***************************************************************************)
\* MigrationScore with norm_shear taken as (shear_stress - 150) / 150
MigrationScore_ShearNotInverted(p, flow_rate, shear_stress) ==
    LET norm_porosity == FDiv(Float(RSub(p, Num(30))), Float(Num(60)))
        norm_flow == FDiv(Float(RSub(flow_rate, Lit(3, 10))), Lit(4, 10))
        norm_shear == FDiv(Float(RSub(shear_stress, Num(150))), Float(Num(150)))
    IN  RMul(RAdd(RAdd(RMul(norm_porosity, Lit(4, 10)), RMul(norm_flow, Lit(35, 100))),
                  RMul(norm_shear, Lit(25, 100))),
             Num(100))

\* lines 149-159: migration_score
MigrationScore(p, flow_rate, shear_stress) ==
    LET norm_porosity == FDiv(Float(RSub(p, Num(30))), Float(Num(60)))
        norm_flow == FDiv(Float(RSub(flow_rate, Lit(3, 10))), Lit(4, 10))
        norm_shear == RSub(Num(1), FDiv(Float(RSub(shear_stress, Num(150))),
                                        Float(Num(150))))
        porosity_weight == Lit(4, 10)
        flow_weight == Lit(35, 100)
        shear_weight == Lit(25, 100)
    IN  RMul(RAdd(RAdd(RMul(norm_porosity, porosity_weight),
                       RMul(norm_flow, flow_weight)),
                  RMul(norm_shear, shear_weight)),
             Num(100))

\* calculate_cell_migration without the clamp of line 161
calculate_cell_migration_Unclamped(p, flow_rate, shear_stress) ==
    MigrationScore(p, flow_rate, shear_stress)

\* lines 148-161; min and max return their first argument unless the second
\* is smaller, respectively greater
calculate_cell_migration(p, flow_rate, shear_stress) ==
    RMax(RMin(MigrationScore(p, flow_rate, shear_stress), Num(100)), Num(0))

KeyError == [outcome |-> "KeyError"]

\* the keys d[k1][k2] that a function reads exist
HasKeys(d, keys) == \A k \in keys : k[1] \in DOMAIN d /\ k[2] \in DOMAIN d[k[1]]

\* lines 163-171 read strain std and mean and stress mean; the lists returned
\* are dropped by get_values
StressStrainKeys == {<<"strain", "std">>, <<"strain", "mean">>, <<"stress", "mean">>}

\* line 146
n_points == 100

\* numpy's arange(0, num) * step + start
Steps(start, step, num) == [i \in 1..num |-> FAdd(FMul(Float(Num(i - 1)), step), start)]

\* linspace that leaves the endpoint out: the step is delta / num
linspace_NoEndpoint(start, stop, num) ==
    Steps(start, FDiv(FSub(stop, start), Float(Num(num))), num)

\* numpy's linspace(start, stop, num) of floats, num > 1: arange(0, num) * step
\* + start with step = (stop - start) / (num - 1), the last sample being set to
\* stop
linspace(start, stop, num) ==
    [Steps(start, FDiv(FSub(stop, start), Float(Num(num - 1))), num) EXCEPT ![num] = stop]

\* numpy's full(shape, fill_value) and full_like(a, fill_value) of float64
full(shape, fill_value) == [i \in 1..shape |-> Float(fill_value)]

\* lines 163-171: (stress_values, strain_values)
generate_stress_strain_values(porosity_params) ==
    LET strain_range == RMul(Num(3), porosity_params["strain"].std)
        strain_values == linspace(Float(RSub(porosity_params["strain"].mean, strain_range)),
                                  Float(RAdd(porosity_params["strain"].mean, strain_range)),
                                  n_points)
        stress_values == full(Len(strain_values), porosity_params["stress"].mean)
    IN  <<stress_values, strain_values>>

\* lines 173-175
generate_flow_rate_values(porosity_params) ==
    full(n_points, porosity_params["flow_rate"].mean)

\* lines 235-247: the figure, as the curve it plots and its texts
plot_stress_strain(statistical_params, p) ==
    IF p \notin DOMAIN statistical_params THEN KeyError
    ELSE LET curve == generate_stress_strain_values(statistical_params[p])
         IN  [outcome |-> "returned",
              fig |-> [x |-> curve[2], y |-> curve[1], porosity |-> p,
                       xlabel |-> "Strain", ylabel |-> "Stress (MPa)"]]

\* lines 250-264: the figure, as the vertical line it plots and its texts
plot_flow_rate(statistical_params, p) ==
    IF p \notin DOMAIN statistical_params THEN KeyError
    ELSE [outcome |-> "returned",
          fig |-> [axvline |-> statistical_params[p]["flow_rate"].mean, porosity |-> p,
                   xlabel |-> "Flow Rate (mL/min)", ylabel |-> "Value",
                   xlim |-> <<Num(0), Num(1)>>]]

\* lines 177-184: (mechanical_strength, cell_migration), p the int porosity
get_bio_properties(p, porosity_params) ==
    <<porosity_params["mechanical_strength"].mean,
      calculate_cell_migration(Num(p), porosity_params["flow_rate"].mean,
                               porosity_params["shear_stress"].mean)>>

\* get_values with cell_migration taken from the table
get_values_TableMigration(statistical_params, p) ==
    IF p \notin DOMAIN statistical_params THEN KeyError
    ELSE LET porosity_params == statistical_params[p]
         IN  [outcome |-> "returned",
              values |-> [prop \in DOMAIN porosity_params |-> porosity_params[prop].mean]]

\* get_values with the porosity brought into the range of the table
get_values_Clamped(statistical_params, p) ==
    LET q == IF p < 30 THEN 30 ELSE IF p > 90 THEN 90 ELSE p
        porosity_params == statistical_params[q]
        bio == get_bio_properties(q, porosity_params)
    IN  [outcome |-> "returned",
         values |-> [stress |-> porosity_params["stress"].mean,
                     strain |-> porosity_params["strain"].mean,
                     flow_rate |-> porosity_params["flow_rate"].mean,
                     mechanical_strength |-> bio[1],
                     cell_migration |-> bio[2],
                     shear_stress |-> porosity_params["shear_stress"].mean]]

\* lines 266-280, statistical_params being self.statistical_params
get_values(statistical_params, p) ==
    IF p \notin DOMAIN statistical_params THEN KeyError
    ELSE LET porosity_params == statistical_params[p]
         IN  IF ~HasKeys(porosity_params,
                         StressStrainKeys
                         \cup {<<"flow_rate", "mean">>, <<"mechanical_strength", "mean">>,
                               <<"shear_stress", "mean">>})
             THEN KeyError
             ELSE LET bio == get_bio_properties(p, porosity_params)
                  IN  [outcome |-> "returned",
                       values |-> [stress |-> porosity_params["stress"].mean,
                                   strain |-> porosity_params["strain"].mean,
                                   flow_rate |-> porosity_params["flow_rate"].mean,
                                   mechanical_strength |-> bio[1],
                                   cell_migration |-> bio[2],
                                   shear_stress |-> porosity_params["shear_stress"].mean]]

\* BandLabel with the band open at both edges
BandLabel_OpenBand(value, range, optimal, lower, higher) ==
    IF RLt(range[1], value) /\ RLt(value, range[2]) THEN optimal
    ELSE IF RLe(value, range[1]) THEN lower
    ELSE higher

\* lines 189-194 and alike: the label of a value against a band
BandLabel(value, range, optimal, lower, higher) ==
    IF RLe(range[1], value) /\ RLe(value, range[2]) THEN optimal
    ELSE IF RLt(value, range[1]) THEN lower
    ELSE higher

\* lines 217-222
MechanicalStrengthLabel(value) ==
    IF RGe(value, Num(80)) THEN "Excellent - Close to native cartilage"
    ELSE IF RLe(Num(60), value) /\ RLt(value, Num(80))
         THEN "Good - Suitable for load-bearing"
         ELSE "Fair - May need reinforcement"

\* CellMigrationLabel with > where lines 224-228 have >= and <=
CellMigrationLabel_StrictTiers(value) ==
    IF RLt(Num(85), value) THEN "Excellent - Optimal for cell infiltration"
    ELSE IF RLt(Num(70), value) THEN "Good - Supports cell movement"
         ELSE IF RLt(Num(50), value) THEN "Fair - Limited cell distribution"
              ELSE "Poor - Significant barriers to cell movement"

\* lines 224-231
CellMigrationLabel(value) ==
    IF RGe(value, Num(85)) THEN "Excellent - Optimal for cell infiltration"
    ELSE IF RLe(Num(70), value) /\ RLt(value, Num(85))
         THEN "Good - Supports cell movement"
         ELSE IF RLe(Num(50), value) /\ RLt(value, Num(70))
              THEN "Fair - Limited cell distribution"
              ELSE "Poor - Significant barriers to cell movement"

\* lines 186-233
interpret_results(values) ==
    IF ~(AllProperties \subseteq DOMAIN values) THEN KeyError
    ELSE [outcome |-> "returned",
          interpretations |->
            [stress |-> BandLabel(values["stress"], native_cartilage.stress_range,
                                  "Optimal - Within native cartilage range",
                                  "Suboptimal - Lower than native cartilage",
                                  "Suboptimal - Higher than native cartilage"),
             strain |-> BandLabel(values["strain"], native_cartilage.strain_range,
                                  "Optimal - Within native cartilage range",
                                  "Suboptimal - Lower than native cartilage",
                                  "Suboptimal - Higher than native cartilage"),
             flow_rate |-> BandLabel(values["flow_rate"], native_cartilage.flow_rate_range,
                                     "Optimal - Promotes nutrient transport",
                                     "Suboptimal - May limit nutrient transport",
                                     "Suboptimal - May cause excessive shear stress"),
             shear_stress |-> BandLabel(values["shear_stress"],
                                        native_cartilage.shear_stress_range,
                                        "Optimal - Suitable for cell viability",
                                        "Suboptimal - May not stimulate cells sufficiently",
                                        "Suboptimal - May cause cell damage"),
             mechanical_strength |-> MechanicalStrengthLabel(values["mechanical_strength"]),
             cell_migration |-> CellMigrationLabel(values["cell_migration"])]]

(***************************************************************************)
(* SpecSim: one call of a method of the simulator, its arguments drawn     *)
(* from small sets                                                         *)
(***************************************************************************)
\* how far outside the table's range a porosity argument is drawn
OutOfRangeMargin == 5

PorosityArguments == (30 - OutOfRangeMargin)..(90 + OutOfRangeMargin)

\* arguments of calculate_cell_migration, inside and outside the table's values
MigrationPorosities == {Num(0), Num(30), Num(45), Num(60), Num(90), Num(150)}
MigrationFlowRates == {Lit(0, 1), Lit(3, 10), Lit(5, 10), Lit(7, 10), Lit(15, 10)}
MigrationShearStresses == {Num(0), Num(150), Num(200), Num(300), Num(600)}

\* bundles for interpret_results: each band property below its band, on its
\* lower edge, inside, on its upper edge and above
StressArguments == {Lit(1, 1), Lit(15, 10), Lit(2, 1), Lit(30, 10), Lit(4, 1)}
StrainArguments == {Lit(7000, 1), Lit(7500, 1), Lit(8000, 1), Lit(8500, 1), Lit(9000, 1)}
FlowRateArguments == {Lit(3, 10), Lit(4, 10), Lit(5, 10), Lit(6, 10), Lit(7, 10)}
ShearStressArguments == {Lit(100, 1), Lit(150, 1), Lit(200, 1), Lit(250, 1), Lit(300, 1)}
MechanicalArguments == {Lit(59, 1), Lit(60, 1), Lit(79, 1), Lit(80, 1)}
MigrationArguments == {Lit(49, 1), Lit(50, 1), Lit(69, 1), Lit(70, 1), Lit(84, 1), Lit(85, 1)}

InterpretArguments ==
    {MakeBundle(st, sn, fl, sh, Lit(70, 1), Lit(60, 1)) :
        st \in StressArguments, sn \in StrainArguments, fl \in FlowRateArguments,
        sh \in ShearStressArguments}
    \cup
    {MakeBundle(Lit(2, 1), Lit(8000, 1), Lit(5, 10), Lit(200, 1), ms, cm) :
        ms \in MechanicalArguments, cm \in MigrationArguments}

\* TISSUE_PROPERTIES with its float literals as floats; its ints stay ints
FloatProfile(tissue_reqs) ==
    [k \in DOMAIN tissue_reqs |->
        IF k \in Range(TraditionalProperties)
        THEN Req(IF tissue_reqs[k].min[2] = 1 THEN tissue_reqs[k].min
                 ELSE Lit(tissue_reqs[k].min[1], tissue_reqs[k].min[2]),
                 IF tissue_reqs[k].optimal[2] = 1 THEN tissue_reqs[k].optimal
                 ELSE Lit(tissue_reqs[k].optimal[1], tissue_reqs[k].optimal[2]))
        ELSE tissue_reqs[k]]

TissueProfiles == [t \in Tissues |-> FloatProfile(TISSUE_PROPERTIES[t])]

\* porosities whose table entries are the arguments of the curve methods
CurvePorosities == {30, 60, 61, 90}

\* the porosity arguments of the plot methods, inside and outside the table
PlotPorosities == CurvePorosities \cup {30 - OutOfRangeMargin, 90 + OutOfRangeMargin}

InitSim ==
    /\ params = STATISTICAL_PARAMS
    /\ last = NoCall
    /\ calls = 0
    /\ profiles = TissueProfiles
    /\ porosity = 0
    /\ results = <<>>
    /\ interpretations = <<>>
    /\ rendered = <<>>
    /\ pc = "call"
    /\ native_cartilage = NATIVE_CARTILAGE
    /\ NoSession

CallGetValues ==
    /\ calls = 0
    /\ \E p \in PorosityArguments :
          last' = [method |-> "get_values", porosity |-> p,
                   result |-> get_values(params, p)]
    /\ calls' = 1
    /\ UNCHANGED <<profiles, params, pageVars, appVars>>

CallCalculateCellMigration ==
    /\ calls = 0
    /\ \E p \in MigrationPorosities, fl \in MigrationFlowRates,
          sh \in MigrationShearStresses :
          last' = [method |-> "calculate_cell_migration", porosity |-> p,
                   flow_rate |-> fl, shear_stress |-> sh,
                   result |-> [outcome |-> "returned",
                               value |-> calculate_cell_migration(p, fl, sh)]]
    /\ calls' = 1
    /\ UNCHANGED <<profiles, params, pageVars, appVars>>

CallInterpretResults ==
    /\ calls = 0
    /\ \E values \in InterpretArguments :
          last' = [method |-> "interpret_results", values |-> values,
                   result |-> interpret_results(values)]
    /\ calls' = 1
    /\ UNCHANGED <<profiles, params, pageVars, appVars>>

\* the method called last
Called(method) == "method" \in DOMAIN last /\ last.method = method

\* generate_stress_strain_values, called once or again and again
CallGenerateStressStrainValues ==
    /\ calls < MaxCalls
    /\ calls = 0 \/ Called("generate_stress_strain_values")
    /\ \E p \in CurvePorosities :
          last' = [method |-> "generate_stress_strain_values", porosity |-> p,
                   porosity_params |-> params[p],
                   result |-> [outcome |-> "returned",
                               value |-> generate_stress_strain_values(params[p])]]
    /\ calls' = calls + 1
    /\ UNCHANGED <<profiles, params, pageVars, appVars>>

CallGenerateFlowRateValues ==
    /\ calls = 0
    /\ \E p \in CurvePorosities :
          last' = [method |-> "generate_flow_rate_values", porosity |-> p,
                   porosity_params |-> params[p],
                   result |-> [outcome |-> "returned",
                               value |-> generate_flow_rate_values(params[p])]]
    /\ calls' = 1
    /\ UNCHANGED <<profiles, params, pageVars, appVars>>

CallPlotStressStrain ==
    /\ calls = 0
    /\ \E p \in PlotPorosities :
          last' = [method |-> "plot_stress_strain", porosity |-> p,
                   result |-> plot_stress_strain(params, p)]
    /\ calls' = 1
    /\ UNCHANGED <<profiles, params, pageVars, appVars>>

CallPlotFlowRate ==
    /\ calls = 0
    /\ \E p \in PlotPorosities :
          last' = [method |-> "plot_flow_rate", porosity |-> p,
                   result |-> plot_flow_rate(params, p)]
    /\ calls' = 1
    /\ UNCHANGED <<profiles, params, pageVars, appVars>>

\* get_bio_properties with its result kept in the entry of the table
CallGetBioProperties_KeepsResult ==
    /\ calls = 0
    /\ \E p \in DOMAIN params :
          LET bio == get_bio_properties(p, params[p])
          IN  /\ last' = [method |-> "get_bio_properties", porosity |-> p,
                          porosity_params |-> params[p],
                          result |-> [outcome |-> "returned", value |-> bio]]
              /\ params' = [params EXCEPT ![p]["cell_migration"].mean = bio[2]]
    /\ calls' = 1
    /\ UNCHANGED <<profiles, pageVars, appVars>>

CallGetBioProperties ==
    /\ calls = 0
    /\ \E p \in DOMAIN params :
          last' = [method |-> "get_bio_properties", porosity |-> p,
                   porosity_params |-> params[p],
                   result |-> [outcome |-> "returned",
                               value |-> get_bio_properties(p, params[p])]]
    /\ calls' = 1
    /\ UNCHANGED <<profiles, params, pageVars, appVars>>

\* evaluate_tissue_compatibility on the bundle get_values returns
CallEvaluateTissueCompatibility ==
    /\ calls = 0
    /\ \E t \in Tissues, p \in DOMAIN params : Evaluate(t, get_values(params, p).values)
    /\ calls' = 1
    /\ UNCHANGED <<params, pageVars, appVars>>

NextSim ==
    \/ CallGetValues
    \/ CallCalculateCellMigration
    \/ CallInterpretResults
    \/ CallGenerateStressStrainValues
    \/ CallGenerateFlowRateValues
    \/ CallPlotStressStrain
    \/ CallPlotFlowRate
    \/ CallGetBioProperties
    \/ CallEvaluateTissueCompatibility

SpecSim == InitSim /\ [][NextSim]_vars

(***************************************************************************)
(* SpecLogin: the users table, the session and the access gate, lines      *)
(* 94-117, 440-590 and 1674-1678.  Every interaction runs the script once: *)
(* line 115 initialises the session, line 1675 chooses the function that   *)
(* renders, and the handler of the widget that was used runs in it.        *)
(***************************************************************************)
\* what is typed in the text inputs of the forms; no input is validated, so
\* the empty string is a username and a password like any other
Usernames == {"", "ada"}
Passwords == {"", "pw"}
Institutions == {"Univ"}

\* the values datetime.now().strftime("%Y-%m-%d %H:%M:%S") of line 509 takes
Timestamps == {"2024-05-01 09:00:00", "2024-05-02 09:00:00"}

\* hashlib.sha256(password.encode()).hexdigest() of the passwords typed
sha256_hexdigest(password) ==
    CASE password = "" ->
           "e3b0c44298fc1c149afbf4c8996fb92427ae41e4649b934ca495991b7852b855"
      [] password = "pw" ->
           "30c952fab122c3f9759f02a6d95c3758b246b4fee239957b2d4fee46e26170c4"

\* lines 110-111
hash_password(password) == sha256_hexdigest(password)

\* Python's None, the value of fetchone() when no row matches
None == [type |-> "NoneType"]

\* fetchone with a SELECT that looks for the username alone
fetchone_AnyPassword(table, username, password_hash) ==
    IF username \in DOMAIN table
    THEN [username |-> username] @@ table[username]
    ELSE None

\* lines 475-480: the row SELECT * FROM users WHERE username=? AND password=?
\* fetches, or None
fetchone(table, username, password_hash) ==
    IF username \in DOMAIN table /\ table[username].password = password_hash
    THEN [username |-> username] @@ table[username]
    ELSE None

\* sqlite3.IntegrityError, raised by an INSERT of a stored primary key
IntegrityError == [outcome |-> "IntegrityError"]

\* insert_into_users as INSERT OR REPLACE
insert_into_users_OrReplace(table, username, password, institution, created_date) ==
    [outcome |-> "committed",
     table |-> (username :> [password |-> password, institution |-> institution,
                             created_date |-> created_date]) @@ table]

\* lines 506-511: INSERT INTO users VALUES (?, ?, ?, ?) and commit, username
\* being the primary key of the table (lines 99-103)
insert_into_users(table, username, password, institution, created_date) ==
    IF username \in DOMAIN table THEN IntegrityError
    ELSE [outcome |-> "committed",
          table |-> table @@
                      (username :> [password |-> password, institution |-> institution,
                                    created_date |-> created_date])]

\* lines 577-581: the pages of the sidebar's radio, Home being selected first
pages == [Home |-> "home_page", Predictor |-> "predictor_page",
          TechnicalSupport |-> "technicalsupport_page"]

MainPages == {pages[p] : p \in DOMAIN pages}

\* lines 1674-1678 and 583-590: the function that renders in a run
RunApp(state, page) ==
    IF ~state.logged_in THEN "login_page" ELSE pages[page]

\* the variables of the simulator and of the predictor page
NoSimulator ==
    /\ profiles = <<>>
    /\ params = <<>>
    /\ porosity = 0
    /\ results = <<>>
    /\ interpretations = <<>>
    /\ rendered = <<>>
    /\ calls = 0
    /\ native_cartilage = NATIVE_CARTILAGE

simVars == <<profiles, params, porosity, results, interpretations, rendered, calls,
             native_cartilage>>

\* the database file does not exist and no browser session is open
InitLogin ==
    /\ users = <<>>
    /\ session_state = <<>>
    /\ pc = "no session"
    /\ last = NoCall
    /\ NoSimulator

\* lines 114-117 and 1674-1678: the first run of a session; init_db creates
\* the table only if it does not exist
OpenSession ==
    /\ pc = "no session"
    /\ session_state' = [logged_in |-> FALSE]
    /\ pc' = RunApp(session_state', "Home")
    /\ last' = [method |-> "open"]
    /\ UNCHANGED <<users, simVars>>

\* lines 468-487: the login form is submitted
SubmitLogin ==
    /\ pc = "login_page"
    /\ \E username \in Usernames, password \in Passwords :
          LET result == fetchone(users, username, hash_password(password))
          IN  IF result # None
              THEN /\ session_state' = [logged_in |-> TRUE, username |-> username]
                   /\ pc' = RunApp(session_state', "Home")
                   /\ last' = [method |-> "login", username |-> username,
                               password |-> password, message |-> "(none)"]
              ELSE /\ session_state' = session_state
                   /\ pc' = "login_page"
                   /\ last' = [method |-> "login", username |-> username,
                               password |-> password,
                               message |-> "Invalid username or password"]
    /\ UNCHANGED <<users, simVars>>

\* lines 491-516: the registration form is submitted
SubmitRegister ==
    /\ pc = "login_page"
    /\ \E new_username \in Usernames, new_password \in Passwords,
          confirm_password \in Passwords, institution \in Institutions,
          now \in Timestamps :
          LET call == [method |-> "register", new_username |-> new_username,
                       new_password |-> new_password,
                       confirm_password |-> confirm_password,
                       institution |-> institution, now |-> now]
          IN  IF new_password # confirm_password
              THEN /\ users' = users
                   /\ last' = call @@ [message |-> "Passwords do not match"]
              ELSE LET r == insert_into_users(users, new_username,
                                              hash_password(new_password),
                                              institution, now)
                   IN  IF r = IntegrityError
                       THEN /\ users' = users
                            /\ last' = call @@ [message |-> "Username already exists"]
                       ELSE /\ users' = r.table
                            /\ last' = call @@
                                 [message |-> "Registration successful! Please login."]
    /\ pc' = "login_page"
    /\ UNCHANGED <<session_state, simVars>>

\* lines 573-575: the Logout button of the sidebar
ClickLogout ==
    /\ pc \in MainPages
    /\ session_state' = [session_state EXCEPT !.logged_in = FALSE]
    /\ pc' = RunApp(session_state', "Home")
    /\ last' = [method |-> "logout"]
    /\ UNCHANGED <<users, simVars>>

\* lines 583-590: another page is chosen in the sidebar
SelectPage ==
    /\ pc \in MainPages
    /\ \E page \in DOMAIN pages :
          /\ pages[page] # pc
          /\ pc' = RunApp(session_state, page)
          /\ last' = [method |-> "navigate", page |-> page]
    /\ UNCHANGED <<users, session_state, simVars>>

\* the browser session ends: its st.session_state is lost, the database stays
CloseSession ==
    /\ pc # "no session"
    /\ session_state' = <<>>
    /\ pc' = "no session"
    /\ last' = [method |-> "close"]
    /\ UNCHANGED <<users, simVars>>

NextLogin ==
    \/ OpenSession
    \/ SubmitLogin
    \/ SubmitRegister
    \/ ClickLogout
    \/ SelectPage
    \/ CloseSession

SpecLogin == InitLogin /\ [][NextLogin]_vars

(***************************************************************************)
(* SpecPage: script runs of predictor_page, lines 780-1100.  Every         *)
(* interaction with the page runs the script again from its first line,    *)
(* which defines TISSUE_PROPERTIES and STATISTICAL_PARAMS anew; a run with *)
(* the Simulate button pressed goes through lines 920-1074.                *)
(***************************************************************************)
\* line 1059: the keys of TISSUE_PROPERTIES other than articular_cartilage, in
\* the order of the dict
OtherTissues == <<"meniscus", "bone_tissue", "skin", "blood_vessel">>

\* lines 1000-1009
CartilageStatus(compatibility_score) ==
    IF RGe(compatibility_score, Lit(8, 10)) THEN "Highly Suitable"
    ELSE IF RGe(compatibility_score, Lit(50, 100)) THEN "Suitable"
    ELSE "Not Recommended"

\* OtherTissueStatus with the 0.50 of line 1003 for the 0.6 of line 1068
OtherTissueStatus_CartilageThreshold(compatibility_score) ==
    CartilageStatus(compatibility_score)

\* lines 1065-1074
OtherTissueStatus(compatibility_score) ==
    IF RGe(compatibility_score, Lit(8, 10)) THEN "Highly Suitable"
    ELSE IF RGe(compatibility_score, Lit(6, 10)) THEN "Suitable"
    ELSE "Not Recommended"

\* main_app, and predictor_page in it, runs in a session that is logged in
\* (line 1675)
LoggedIn ==
    /\ \E u \in DOMAIN users : session_state = [logged_in |-> TRUE, username |-> u]

\* line 899: the slider starts at 60
InitPage ==
    /\ params = STATISTICAL_PARAMS
    /\ profiles = TissueProfiles
    /\ porosity = 60
    /\ results = <<>>
    /\ interpretations = <<>>
    /\ rendered = <<>>
    /\ last = NoCall
    /\ calls = 0
    /\ pc = "idle"
    /\ native_cartilage = NATIVE_CARTILAGE
    /\ users = [u \in {"ada"} |-> [password |-> hash_password("pw"),
                                   institution |-> "Univ",
                                   created_date |-> "2024-05-01 09:00:00"]]
    /\ LoggedIn

\* a new script run: lines 92 and 712-763 are executed again
StartRun ==
    /\ params' = STATISTICAL_PARAMS
    /\ profiles' = TissueProfiles
    /\ results' = <<>>
    /\ interpretations' = <<>>
    /\ rendered' = <<>>
    /\ last' = NoCall
    /\ native_cartilage' = NATIVE_CARTILAGE
    /\ UNCHANGED <<calls, users, session_state>>

\* line 899: the slider is moved, by steps of 1 between 30 and 90; the run
\* ends at line 920, the button not being pressed
MoveSlider ==
    /\ pc = "idle"
    /\ \E p \in 30..90 : p # porosity /\ porosity' = p
    /\ StartRun
    /\ pc' = "idle"

\* line 920: the button is pressed
ClickSimulate ==
    /\ pc = "idle"
    /\ StartRun
    /\ pc' = "line 922"
    /\ UNCHANGED porosity

\* line 922
GetValues ==
    /\ pc = "line 922"
    /\ LET r == get_values(params, porosity)
       IN  IF r.outcome = "returned"
           THEN results' = r.values /\ pc' = "line 923"
           ELSE results' = results /\ pc' = r.outcome
    /\ UNCHANGED <<params, profiles, porosity, interpretations, rendered, last, calls,
                   appVars>>

\* line 923
InterpretResults ==
    /\ pc = "line 923"
    /\ LET r == interpret_results(results)
       IN  IF r.outcome = "returned"
           THEN interpretations' = r.interpretations /\ pc' = "line 996"
           ELSE interpretations' = interpretations /\ pc' = r.outcome
    /\ UNCHANGED <<params, profiles, porosity, results, rendered, last, calls,
                   appVars>>

\* the card of a tissue: what lines 1011 on and 1077 on show of the call
Card(t, r, status) ==
    [tissue |-> t, compatibility_score |-> r.final_score, property_scores |-> r.scores,
     status |-> status]

\* lines 996-1009
ScoreCartilage ==
    /\ pc = "line 996"
    /\ Evaluate("articular_cartilage", results)
    /\ LET r == last'.result
       IN  IF r.outcome = "returned"
           THEN /\ rendered' = Append(rendered,
                                      Card("articular_cartilage", r,
                                           CartilageStatus(r.final_score)))
                /\ pc' = "line 1059"
           ELSE rendered' = rendered /\ pc' = r.outcome
    /\ UNCHANGED <<params, porosity, results, interpretations, calls, appVars>>

\* lines 1059-1074: one iteration of the loop over the other tissues
ScoreOtherTissue ==
    /\ pc = "line 1059"
    /\ LET t == OtherTissues[Len(rendered)]
           r == last'.result
       IN  /\ Evaluate(t, results)
           /\ IF r.outcome = "returned"
              THEN /\ rendered' = Append(rendered, Card(t, r, OtherTissueStatus(r.final_score)))
                   /\ pc' = IF Len(rendered) = Len(OtherTissues) THEN "idle"
                            ELSE "line 1059"
              ELSE rendered' = rendered /\ pc' = r.outcome
    /\ UNCHANGED <<params, porosity, results, interpretations, calls, appVars>>

NextPage ==
    \/ MoveSlider
    \/ ClickSimulate
    \/ GetValues
    \/ InterpretResults
    \/ ScoreCartilage
    \/ ScoreOtherTissue

SpecPage == InitPage /\ [][NextPage]_vars

(***************************************************************************)
(* SpecScore: the score of one traditional property, lines 650-662, as a   *)
(* function of the bundle's value: a catalog profile is scored with        *)
(* bundles of one property, whose value lies below, at, next to or above   *)
(* the profile's min and optimal.                                          *)
(***************************************************************************)
\* the float next below and next above a positive float
FPred(a) ==
    IF BitLen(BSub(a[2], <<1>>)) = MantissaBits THEN <<a[1], BSub(a[2], <<1>>), a[3]>>
    ELSE <<a[1], BSub(BShl(a[2], 1), <<1>>), a[3] - 1>>

FSucc(a) == FCarry(a[1], BAdd(a[2], <<1>>), a[3])

\* the values a requirement {min, optimal} is scored with
ValuesAround(req) ==
    {FNeg(Float(req.optimal)), FNeg(FPred(Float(req.min))), FZero,
     FDiv(Float(req.min), Float(Num(3))), FPred(Float(req.min)), Float(req.min),
     FSucc(Float(req.min)), FDiv(Float(RAdd(req.min, req.optimal)), Float(Num(2))),
     FPred(Float(req.optimal)), Float(req.optimal), FSucc(Float(req.optimal)),
     FMul(Float(req.optimal), Float(Num(3)))}

InitScore ==
    /\ profiles = TissueProfiles
    /\ last = NoCall
    /\ calls = 0
    /\ NoPage

\* one call with a bundle of one property; the calls that follow are of the
\* same profile and property
ScoreValue ==
    /\ \E t \in Tissues, p \in Range(TraditionalProperties) :
          /\ last = NoCall \/ (last.tissue = t /\ DOMAIN last.scaffold_props = {p})
          /\ \E v \in ValuesAround(profiles[t][p]) : Evaluate(t, [q \in {p} |-> v])
    /\ UNCHANGED <<calls, params, pageVars, appVars>>

NextScore == ScoreValue

SpecScore == InitScore /\ [][NextScore]_vars

(***************************************************************************)
(* Properties                                                              *)
(***************************************************************************)
Returned == last.result.outcome = "returned"

InUnitInterval(x) == RLe(Num(0), x) /\ RLe(x, Num(1))

\* the critical factors of a call as the profile declares them at startup,
\* with the two additions the bundle of the call earns
DeclaredCritical(t) == Range(Get(UnitObjects[t], "critical_factors", <<>>))

EarnedCritical(b) ==
    {p \in {"mechanical_strength"} \cap DOMAIN b : RGe(b[p], Num(70))}
    \cup {p \in {"cell_migration"} \cap DOMAIN b : RGe(b[p], Num(65))}

\* sum of w(p) * x[p] over sum of w(p), p the keys of x, with w(p) = 2 on the
\* critical keys and 1 on the others
Weight(p, critical) == IF p \in critical THEN 2 ELSE 1

WeightedMean(x, critical) ==
    LET term(p) == IF p \in DOMAIN x THEN RMul(Num(Weight(p, critical)), x[p]) ELSE Num(0)
        weight(p) == IF p \in DOMAIN x THEN Weight(p, critical) ELSE 0
    IN  RDiv(RAdd(RAdd(RAdd(term("stress"), term("strain")),
                       RAdd(term("flow_rate"), term("shear_stress"))),
                  RAdd(term("mechanical_strength"), term("cell_migration"))),
             Num(weight("stress") + weight("strain") + weight("flow_rate")
                 + weight("shear_stress") + weight("mechanical_strength")
                 + weight("cell_migration")))

\* C1: for a bundle of six non-negative values and a catalog profile, the
\* final_score returned lies in [0, 1], on the first call and on every later
\* call against the same profile object.
C1_FinalScoreInUnitInterval ==
    Returned => InUnitInterval(last.result.final_score)

\* C2: after any sequence of calls every catalog profile, its critical_factors
\* list included, equals its value at startup.
C2_CatalogConstant ==
    \A t \in Tissues : profiles[t] = TISSUE_PROPERTIES[t]

\* C3: a call returns the final_score and the per-property scores that the same
\* bundle gets from the profile as it is at startup, whatever calls came before.
C3_ScoringStateless ==
    Returned =>
        LET fresh == evaluate_tissue_compatibility(last.scaffold_props,
                                                   TISSUE_PROPERTIES[last.tissue])
        IN  /\ last.result.final_score = fresh.final_score
            /\ last.result.scores = fresh.scores

\* C4: before the penalty the final score is sum(w_p * score_p) / sum(w_p) over
\* the computed scores, w_p = 2 for a critical factor and 1 otherwise, each
\* property counted once, also when it is both declared and added by threshold.
C4_WeightedMeanCountsOnce ==
    Returned =>
        last.result.weighted_final =
            WeightedMean(last.result.scores,
                         DeclaredCritical(last.tissue) \cup EarnedCritical(last.scaffold_props))

\* C7: a property the static profile does not declare critical is weighted as
\* critical in a call iff it is mechanical_strength with this bundle's value
\* >= 70 or cell_migration with this bundle's value >= 65.
C7_CriticalFromThisBundleOnly ==
    Returned =>
        \A p \in DOMAIN last.result.scores \ DeclaredCritical(last.tissue) :
            (p \in Range(last.result.critical_factors))
                <=> (p \in EarnedCritical(last.scaffold_props))

\* C8: the final score is the aggregated score times 0.5 exactly when the
\* bundle's mechanical_strength < 40 or its cell_migration < 45, the factor
\* applied once, and the aggregated score otherwise; it never exceeds the
\* aggregated score.
C8_PenaltyHalvesOnce ==
    (Returned /\ {"mechanical_strength", "cell_migration"} \subseteq DOMAIN last.scaffold_props) =>
        LET b == last.scaffold_props
            penalised == \/ RLt(b.mechanical_strength, Num(40))
                         \/ RLt(b.cell_migration, Num(45))
        IN  /\ penalised => last.result.final_score
                              = RDiv(last.result.weighted_final, Num(2))
            /\ ~penalised => last.result.final_score = last.result.weighted_final
            /\ RLe(last.result.final_score, last.result.weighted_final)

\* C8 witness: a call whose bundle meets both penalty conditions and whose
\* positive aggregated score was halved once.
C8_Witness ==
    /\ Returned
    /\ RLt(last.scaffold_props.mechanical_strength, Num(40))
    /\ RLt(last.scaffold_props.cell_migration, Num(45))
    /\ RLt(Num(0), last.result.weighted_final)
    /\ RMul(last.result.final_score, Num(2)) = last.result.weighted_final

\* the case of C5: a profile given with critical_factors = [stress], and
\* computed scores exactly {stress: 1.0, strain: 0.5}
C5_Case ==
    /\ Returned
    /\ Get(UnitObjects[last.tissue], "critical_factors", <<>>) = <<"stress">>
    /\ DOMAIN last.result.scores = {"stress", "strain"}
    /\ last.result.scores["stress"] = Num(1)
    /\ last.result.scores["strain"] = R(1, 2)

\* C5 as stated: in that case the call yields final = 0.833 (to three decimals).
C5_ExampleYields0833 ==
    C5_Case => /\ RLe(R(8325, 10000), last.result.final_score)
               /\ RLt(last.result.final_score, R(8335, 10000))

\* C5 as amended: in that case the weighted score before the penalty is
\* (1.0*2 + 0.5*1)/(2+1) = 5/6, and the final_score returned is half of it, 5/12,
\* the bundle having no mechanical_strength and no cell_migration.
C5_ExampleBeforePenalty ==
    C5_Case => /\ last.result.weighted_final = R(5, 6)
               /\ last.result.final_score = R(5, 12)

\* C5 witness: the example's call has been made.
C5_Witness ==
    C5_Case /\ last.tissue = "weighted_example"

\* C6: the score of stress, strain, flow_rate, shear_stress is 1.0 for
\* value >= optimal, (value-min)/(optimal-min)*0.5+0.5 in [0.5, 1.0) for
\* min <= value < optimal and max(0, value/min*0.5) in [0, 0.5) for value < min;
\* every per-property score lies in [0, 1].
C6_PropertyScoreRule ==
    Returned =>
        /\ \A p \in Range(TraditionalProperties) \cap DOMAIN last.scaffold_props
                    \cap DOMAIN UnitObjects[last.tissue] :
              LET v == last.scaffold_props[p]
                  lo == UnitObjects[last.tissue][p].min
                  hi == UnitObjects[last.tissue][p].optimal
                  sc == last.result.scores[p]
              IN  /\ RGe(v, hi) => sc = Num(1)
                  /\ (RGe(v, lo) /\ RLt(v, hi)) =>
                        /\ sc = RAdd(RDiv(RSub(v, lo), RMul(Num(2), RSub(hi, lo))), R(1, 2))
                        /\ RLe(R(1, 2), sc) /\ RLt(sc, Num(1))
                  /\ RLt(v, lo) =>
                        /\ sc = RMax(Num(0), RDiv(v, RMul(Num(2), lo)))
                        /\ RLe(Num(0), sc) /\ RLt(sc, R(1, 2))
        /\ \A p \in DOMAIN last.result.scores : InUnitInterval(last.result.scores[p])

\* C6 witness: a catalog profile scored with one value strictly between min and
\* optimal, one below min and one negative.
C6_Witness ==
    /\ Returned
    /\ last.tissue \in Tissues
    /\ \E p, q, n \in DOMAIN last.scaffold_props \cap Range(TraditionalProperties) :
          /\ RLt(R(1, 2), last.result.scores[p]) /\ RLt(last.result.scores[p], Num(1))
          /\ RLt(Num(0), last.result.scores[q]) /\ RLt(last.result.scores[q], R(1, 2))
          /\ RLt(last.scaffold_props[n], Num(0)) /\ last.result.scores[n] = Num(0)

\* C9: when no critical factor, declared or added, has a computed score, the
\* score before the penalty is the unweighted mean of the computed scores, for
\* an empty critical-factor list and for a non-empty one.
C9_FallbackUnweightedMean ==
    (/\ Returned
     /\ DOMAIN last.result.scores # {}
     /\ Range(last.result.critical_factors) \cap DOMAIN last.result.scores = {})
        => last.result.weighted_final = WeightedMean(last.result.scores, {})

\* C9 witness: a non-empty critical-factor list none of whose members is scored,
\* and scores that differ from one another.
C9_Witness ==
    /\ Returned
    /\ last.result.critical_factors # <<>>
    /\ Range(last.result.critical_factors) \cap DOMAIN last.result.scores = {}
    /\ \E p, q \in DOMAIN last.result.scores : last.result.scores[p] # last.result.scores[q]

\* the empty-list case of C9 is reached too
C9_EmptyListCase ==
    /\ Returned
    /\ last.result.critical_factors = <<>>
    /\ "critical_factors" \in DOMAIN UnitObjects[last.tissue]
    /\ \E p, q \in DOMAIN last.result.scores : last.result.scores[p] # last.result.scores[q]

\* s is the score of the percentage v under the thresholds hi > mid > lo
Tiered(v, s, hi, mid, lo) ==
    /\ RGe(v, Num(hi)) => s = Num(1)
    /\ (RGe(v, Num(mid)) /\ RLt(v, Num(hi))) => s = R(75, 100)
    /\ (RGe(v, Num(lo)) /\ RLt(v, Num(mid))) => s = R(50, 100)
    /\ RLt(v, Num(lo)) => s = R(25, 100)

\* C10: the mechanical_strength score is 1.0 / 0.75 / 0.5 / 0.25 with
\* thresholds 80, 60, 40 and the cell_migration score with thresholds 75, 60,
\* 45, each boundary value in the higher tier.
C10_PercentageTiers ==
    Returned =>
        /\ "mechanical_strength" \in DOMAIN last.scaffold_props =>
              Tiered(last.scaffold_props.mechanical_strength,
                     last.result.scores["mechanical_strength"], 80, 60, 40)
        /\ "cell_migration" \in DOMAIN last.scaffold_props =>
              Tiered(last.scaffold_props.cell_migration,
                     last.result.scores["cell_migration"], 75, 60, 45)

\* C10 witness: both percentages on a tier boundary, scored in the higher tier.
C10_Witness ==
    /\ Returned
    /\ {"mechanical_strength", "cell_migration"} \subseteq DOMAIN last.scaffold_props
    /\ last.scaffold_props.mechanical_strength = Num(60)
    /\ last.result.scores["mechanical_strength"] = R(75, 100)
    /\ last.scaffold_props.cell_migration = Num(45)
    /\ last.result.scores["cell_migration"] = R(50, 100)

(***************************************************************************)
(* Properties of the interpolation table (SpecTable)                       *)
(***************************************************************************)
TableBuilt == pc = "line 92"

\* C14: the table generate_complete_params returns has an entry for every
\* integer porosity from 30 to 90 and for no other key (61 keys), and each entry
\* has a mean and a std for each of the six properties.
C14_TableCoversEveryPorosity ==
    TableBuilt =>
        /\ DOMAIN params = 30..90
        /\ Cardinality(DOMAIN params) = 61
        /\ \A p \in DOMAIN params :
              /\ DOMAIN params[p] = {"stress", "strain", "flow_rate", "shear_stress",
                                     "mechanical_strength", "cell_migration"}
              /\ \A prop \in DOMAIN params[p] : DOMAIN params[p][prop] = {"mean", "std"}

\* C14 witness: the table has been returned, with its first and last entries.
C14_Witness ==
    /\ TableBuilt
    /\ {30, 90} \subseteq DOMAIN params
    /\ "cell_migration" \in DOMAIN params[90]

\* p has its entry for prop in the table
Filled(p, prop) == p \in DOMAIN params /\ prop \in DOMAIN params[p]

\* C15: for every property the table's mean and std at porosity 30 equal the
\* anchor-30 values exactly, and at porosity 90 the anchor-90 values exactly.
C15_EndpointsExact ==
    \A p \in {30, 90}, prop \in Range(TableProperties) :
        Filled(p, prop) =>
            /\ REq(params[p][prop].mean, key_points[p][prop].mean)
            /\ REq(params[p][prop].std, key_points[p][prop].std)

\* C16: at porosity 60 the formula on the pair (30, 60), whose result is the
\* table's entry, and the formula on the pair (60, 90) give the same mean and
\* std for every property, equal to the anchor-60 values.
C16_ContinuousAt60 ==
    \A prop \in Range(TableProperties) :
        Filled(60, prop) =>
            /\ REq(params[60][prop].mean, InterpolatedEntry(60, 60, 90, prop).mean)
            /\ REq(params[60][prop].std, InterpolatedEntry(60, 60, 90, prop).std)
            /\ REq(params[60][prop].mean, key_points[60][prop].mean)
            /\ REq(params[60][prop].std, key_points[60][prop].std)

\* C17: for the porosity p of the running iteration the pair is (30, 60) when
\* p <= 60 and (60, 90) otherwise, p1 <= p <= p2, p2 - p1 = 30, factor is the
\* float (p - p1)/(p2 - p1) and lies in [0, 1], and each mean and std entered
\* is anchor[p1] + factor * (anchor[p2] - anchor[p1]).
C17_EnclosingAnchorPair ==
    porosity \in DOMAIN params =>
        /\ porosity <= 60 => last.p1 = 30 /\ last.p2 = 60
        /\ porosity > 60 => last.p1 = 60 /\ last.p2 = 90
        /\ last.p1 <= porosity /\ porosity <= last.p2
        /\ last.p2 - last.p1 = 30
        /\ last.factor # ZeroDivisionError
        /\ last.factor = Lit(porosity - last.p1, last.p2 - last.p1)
        /\ RLe(Num(0), last.factor) /\ RLe(last.factor, Num(1))
        /\ \A prop \in DOMAIN params[porosity] :
              LET a == key_points[last.p1][prop]
                  b == key_points[last.p2][prop]
              IN  /\ params[porosity][prop].mean
                        = RAdd(a.mean, RMul(last.factor, RSub(b.mean, a.mean)))
                  /\ params[porosity][prop].std
                        = RAdd(a.std, RMul(last.factor, RSub(b.std, a.std)))

\* C17 witness: the boundary porosity 60, entered from the pair (30, 60) with
\* factor 1.0.
C17_Witness ==
    /\ porosity = 60
    /\ Filled(60, "cell_migration")
    /\ last.p1 = 30 /\ last.p2 = 60
    /\ REq(last.factor, Num(1))

\* the other branch of C17: a porosity above 60 with a factor strictly inside
C17_UpperPairCase ==
    /\ porosity = 61
    /\ Filled(61, "cell_migration")
    /\ last.p1 = 60 /\ last.p2 = 90
    /\ RLt(Num(0), last.factor) /\ RLt(last.factor, Num(1))

(***************************************************************************)
(* Properties of the predictor page (SpecPage) and of the simulator's      *)
(* methods (SpecSim)                                                       *)
(***************************************************************************)
Statuses == {"Highly Suitable", "Suitable", "Not Recommended"}

\* C11: a card's status is 'Highly Suitable' for a score >= 0.8 at both call
\* sites; below 0.8 it is 'Suitable' iff the score is >= 0.50 on the articular
\* cartilage card and iff it is >= 0.6 on the cards of the other tissues; it is
\* 'Not Recommended' for every remaining score; each card has one status.
C11_StatusBuckets ==
    \A i \in DOMAIN rendered :
        LET card == rendered[i]
            score == card.compatibility_score
            suitable_from == IF card.tissue = "articular_cartilage"
                             THEN Lit(50, 100) ELSE Lit(6, 10)
        IN  /\ card.status \in Statuses
            /\ card.status = "Highly Suitable" <=> RGe(score, Lit(8, 10))
            /\ card.status = "Suitable"
                  <=> (RLt(score, Lit(8, 10)) /\ RGe(score, suitable_from))
            /\ card.status = "Not Recommended" <=> RLt(score, suitable_from)

\* C11 witness: one pass in which a score in [0.5, 0.6) is 'Suitable' on the
\* articular cartilage card and 'Not Recommended' on another tissue's card.
C11_Witness ==
    \E i, j \in DOMAIN rendered :
        /\ rendered[i].tissue = "articular_cartilage"
        /\ rendered[j].tissue # "articular_cartilage"
        /\ \A k \in {i, j} : /\ RGe(rendered[k].compatibility_score, Lit(50, 100))
                             /\ RLt(rendered[k].compatibility_score, Lit(6, 10))
        /\ rendered[i].status = "Suitable"
        /\ rendered[j].status = "Not Recommended"

\* the top bucket of C11 is reached too
C11_HighlySuitableCase ==
    \E i \in DOMAIN rendered :
        /\ rendered[i].status = "Highly Suitable"
        /\ RGe(rendered[i].compatibility_score, Lit(8, 10))

Raised == {"KeyError", "ZeroDivisionError"}

\* C12: for every integer porosity in 30..90 and every catalog tissue,
\* get_values, interpret_results and evaluate_tissue_compatibility each return
\* a result and none raises: no run of the page ends in an exception, the
\* bundle and the labels have their six keys, and a finished pass shows a card
\* with a score for each of the five tissues.
C12_CoreTotalInDomain ==
    /\ porosity \in 30..90
    /\ pc \notin Raised
    /\ last.result.outcome \notin Raised
    /\ pc \in {"line 923", "line 996", "line 1059"} => DOMAIN results = AllProperties
    /\ pc \in {"line 996", "line 1059"} => DOMAIN interpretations = AllProperties
    /\ pc = "line 1059" => Len(rendered) \in 1..4
    /\ (pc = "idle" /\ results # <<>>) =>
          /\ DOMAIN interpretations = AllProperties
          /\ {rendered[i].tissue : i \in DOMAIN rendered} = Tissues
          /\ Len(rendered) = 5

\* C12 witness: the pass at porosity 90 has finished with its five cards.
C12_Witness ==
    /\ porosity = 90
    /\ pc = "idle"
    /\ Len(rendered) = 5
    /\ rendered[5].tissue = "blood_vessel"

\* the other end of the range of C12
C12_LowestPorosityCase ==
    /\ porosity = 30
    /\ pc = "idle"
    /\ Len(rendered) = 5

GetValuesCalled == "method" \in DOMAIN last /\ last.method = "get_values"

\* C13 as stated: get_values rejects a porosity outside [30, 90] with an
\* InvalidPorosity error.
C13_RejectedWithInvalidPorosity ==
    (GetValuesCalled /\ last.porosity \notin 30..90) =>
        last.result.outcome = "InvalidPorosity"

\* C13 as amended: get_values called with a porosity outside [30, 90] raises
\* KeyError and returns no bundle, while a porosity within gets its bundle.
C13_RejectedWithKeyError ==
    GetValuesCalled =>
        /\ last.porosity \notin 30..90 =>
              /\ last.result.outcome = "KeyError"
              /\ "values" \notin DOMAIN last.result
        /\ last.porosity \in 30..90 =>
              /\ last.result.outcome = "returned"
              /\ DOMAIN last.result.values = AllProperties

\* C13 witness: get_values has been called just above the range.
C13_Witness ==
    /\ GetValuesCalled
    /\ last.porosity = 91
    /\ last.result.outcome = "KeyError"

\* ... and just below it
C13_BelowRangeCase ==
    /\ GetValuesCalled
    /\ last.porosity = 29
    /\ last.result.outcome = "KeyError"

MigrationCalled == "method" \in DOMAIN last /\ last.method = "calculate_cell_migration"

\* |a - b| <= 10^-9
Close(a, b) ==
    /\ RLe(RSub(a, b), Lit(1, 1000000000))
    /\ RLe(RSub(b, a), Lit(1, 1000000000))

\* C18: calculate_cell_migration returns (norm_porosity*0.4 + norm_flow*0.35 +
\* norm_shear*0.25)*100 clamped into [0, 100]: the result is in [0, 100], a raw
\* score below 0 returns 0, one above 100 returns 100, one within is returned
\* as it is, and (30, 0.3, 300) returns 0.  The raw score is, up to rounding,
\* (porosity-30)/60*40 + (flow_rate-0.3)/0.4*35 + (1-(shear_stress-150)/150)*25.
C18_MigrationClamped ==
    MigrationCalled =>
        LET raw == MigrationScore(last.porosity, last.flow_rate, last.shear_stress)
            value == last.result.value
            of_porosity == RDiv(RMul(RSub(last.porosity, Num(30)), Num(40)), Num(60))
            of_shear == RMul(RSub(Num(1), RDiv(RSub(last.shear_stress, Num(150)),
                                               Num(150))),
                             Num(25))
            ideal == RAdd(RAdd(Lit(of_porosity[1], of_porosity[2]),
                               RDiv(RMul(RSub(last.flow_rate, Lit(3, 10)), Num(35)),
                                    Lit(4, 10))),
                          Lit(of_shear[1], of_shear[2]))
        IN  /\ Close(raw, ideal)
            /\ RLe(Num(0), value) /\ RLe(value, Num(100))
            /\ RLt(raw, Num(0)) => REq(value, Num(0))
            /\ RLt(Num(100), raw) => REq(value, Num(100))
            /\ (RLe(Num(0), raw) /\ RLe(raw, Num(100))) => REq(value, raw)
            /\ (/\ REq(last.porosity, Num(30))
                /\ REq(last.flow_rate, Lit(3, 10))
                /\ REq(last.shear_stress, Num(300))) => REq(value, Num(0))

\* C18 witness: a raw score above 100 was returned as 100.
C18_Witness ==
    /\ MigrationCalled
    /\ RLt(Num(100), MigrationScore(last.porosity, last.flow_rate, last.shear_stress))
    /\ REq(last.result.value, Num(100))

\* a raw score below 0 was returned as 0
C18_ClampedBelowCase ==
    /\ MigrationCalled
    /\ RLt(MigrationScore(last.porosity, last.flow_rate, last.shear_stress), Num(0))
    /\ REq(last.result.value, Num(0))

\* the point (30, 0.3, 300) of C18
C18_ZeroPointCase ==
    /\ MigrationCalled
    /\ REq(last.porosity, Num(30))
    /\ REq(last.flow_rate, Lit(3, 10))
    /\ REq(last.shear_stress, Num(300))
    /\ REq(last.result.value, Num(0))

\* C19: in every run the bundle of get_values is the same function of the
\* porosity: stress, strain, flow_rate, shear_stress and mechanical_strength
\* are the table's means at that porosity, and cell_migration is
\* calculate_cell_migration of the porosity and the flow_rate and shear_stress
\* means, which differs from the table's cell_migration mean.
C19_BundleFromTableMeans ==
    results # <<>> =>
        LET entry == STATISTICAL_PARAMS[porosity]
        IN  /\ DOMAIN results = AllProperties
            /\ \A prop \in AllProperties \ {"cell_migration"} :
                  results[prop] = entry[prop].mean
            /\ results["cell_migration"]
                  = calculate_cell_migration(Num(porosity), entry["flow_rate"].mean,
                                             entry["shear_stress"].mean)
            /\ ~REq(results["cell_migration"], entry["cell_migration"].mean)

\* C19 witness: the bundle at porosity 60, cell_migration 54.17 where the table
\* has 85.
C19_Witness ==
    /\ porosity = 60
    /\ results # <<>>
    /\ RLt(Lit(5416, 100), results["cell_migration"])
    /\ RLt(results["cell_migration"], Lit(5417, 100))
    /\ REq(params[60]["cell_migration"].mean, Num(85))

InterpretCalled == "method" \in DOMAIN last /\ last.method = "interpret_results"

\* the three labels of a band property, and the edges of its band
BandLabels ==
    [stress |-> <<"Optimal - Within native cartilage range",
                  "Suboptimal - Lower than native cartilage",
                  "Suboptimal - Higher than native cartilage">>,
     strain |-> <<"Optimal - Within native cartilage range",
                  "Suboptimal - Lower than native cartilage",
                  "Suboptimal - Higher than native cartilage">>,
     flow_rate |-> <<"Optimal - Promotes nutrient transport",
                     "Suboptimal - May limit nutrient transport",
                     "Suboptimal - May cause excessive shear stress">>,
     shear_stress |-> <<"Optimal - Suitable for cell viability",
                        "Suboptimal - May not stimulate cells sufficiently",
                        "Suboptimal - May cause cell damage">>]

BandEdges ==
    [stress |-> <<Lit(15, 10), Lit(30, 10)>>,
     strain |-> <<Num(7500), Num(8500)>>,
     flow_rate |-> <<Lit(4, 10), Lit(6, 10)>>,
     shear_stress |-> <<Num(150), Num(250)>>]

\* C20: interpret_results returns one label for each of the six properties;
\* for stress, strain, flow_rate and shear_stress it is the 'Optimal' label iff
\* lo <= value <= hi of the NATIVE_CARTILAGE band, the 'lower' label iff
\* value < lo and the 'higher' label iff value > hi.
C20_BandLabels ==
    InterpretCalled =>
        /\ last.result.outcome = "returned"
        /\ DOMAIN last.result.interpretations = AllProperties
        /\ \A prop \in DOMAIN BandLabels :
              LET value == last.values[prop]
                  label == last.result.interpretations[prop]
                  lo == BandEdges[prop][1]
                  hi == BandEdges[prop][2]
              IN  /\ label \in Range(BandLabels[prop])
                  /\ label = BandLabels[prop][1] <=> (RLe(lo, value) /\ RLe(value, hi))
                  /\ label = BandLabels[prop][2] <=> RLt(value, lo)
                  /\ label = BandLabels[prop][3] <=> RLt(hi, value)

\* C20 witness: stress on the lower edge 1.5 and strain on the upper edge 8500
\* labelled 'Optimal', flow_rate below and shear_stress above their bands.
C20_Witness ==
    /\ InterpretCalled
    /\ REq(last.values["stress"], Lit(15, 10))
    /\ REq(last.values["strain"], Num(8500))
    /\ last.result.interpretations["stress"] = "Optimal - Within native cartilage range"
    /\ last.result.interpretations["strain"] = "Optimal - Within native cartilage range"
    /\ last.result.interpretations["flow_rate"] = "Suboptimal - May limit nutrient transport"
    /\ last.result.interpretations["shear_stress"] = "Suboptimal - May cause cell damage"

\* the upper edge 3.0 of the stress band
C20_StressUpperEdgeCase ==
    /\ InterpretCalled
    /\ REq(last.values["stress"], Num(3))
    /\ last.result.interpretations["stress"] = "Optimal - Within native cartilage range"

\* C21: interpret_results labels mechanical_strength 'Excellent' iff
\* value >= 80, 'Good' iff 60 <= value < 80 and 'Fair' iff value < 60, and
\* cell_migration 'Excellent' iff value >= 85, 'Good' iff 70 <= value < 85,
\* 'Fair' iff 50 <= value < 70 and 'Poor' iff value < 50: one label for every
\* value.
C21_TierLabels ==
    (InterpretCalled /\ last.result.outcome = "returned") =>
        LET strength == last.values["mechanical_strength"]
            strength_label == last.result.interpretations["mechanical_strength"]
            migration == last.values["cell_migration"]
            migration_label == last.result.interpretations["cell_migration"]
        IN  /\ strength_label \in {"Excellent - Close to native cartilage",
                                   "Good - Suitable for load-bearing",
                                   "Fair - May need reinforcement"}
            /\ strength_label = "Excellent - Close to native cartilage"
                  <=> RGe(strength, Num(80))
            /\ strength_label = "Good - Suitable for load-bearing"
                  <=> (RGe(strength, Num(60)) /\ RLt(strength, Num(80)))
            /\ strength_label = "Fair - May need reinforcement"
                  <=> RLt(strength, Num(60))
            /\ migration_label \in {"Excellent - Optimal for cell infiltration",
                                    "Good - Supports cell movement",
                                    "Fair - Limited cell distribution",
                                    "Poor - Significant barriers to cell movement"}
            /\ migration_label = "Excellent - Optimal for cell infiltration"
                  <=> RGe(migration, Num(85))
            /\ migration_label = "Good - Supports cell movement"
                  <=> (RGe(migration, Num(70)) /\ RLt(migration, Num(85)))
            /\ migration_label = "Fair - Limited cell distribution"
                  <=> (RGe(migration, Num(50)) /\ RLt(migration, Num(70)))
            /\ migration_label = "Poor - Significant barriers to cell movement"
                  <=> RLt(migration, Num(50))

\* C21 witness: the tier edges 80 and 70 labelled 'Excellent' and 'Good'.
C21_Witness ==
    /\ InterpretCalled
    /\ REq(last.values["mechanical_strength"], Num(80))
    /\ REq(last.values["cell_migration"], Num(70))
    /\ last.result.interpretations["mechanical_strength"]
          = "Excellent - Close to native cartilage"
    /\ last.result.interpretations["cell_migration"] = "Good - Supports cell movement"

\* the lowest tiers of C21
C21_LowestTiersCase ==
    /\ InterpretCalled
    /\ REq(last.values["mechanical_strength"], Num(59))
    /\ REq(last.values["cell_migration"], Num(49))
    /\ last.result.interpretations["mechanical_strength"] = "Fair - May need reinforcement"
    /\ last.result.interpretations["cell_migration"]
          = "Poor - Significant barriers to cell movement"

\* |a - n/d| <= 1/(2*unit): a is n/d to the decimals that unit counts
ToDecimals(a, n, d, unit) ==
    /\ RLe(RSub(a, Lit(n, d)), Lit(1, 2 * unit))
    /\ RLe(RSub(Lit(n, d), a), Lit(1, 2 * unit))

\* C22: in the pass at porosity 60, get_values returns stress 1.9460, strain
\* 8049.9094, flow_rate 0.5, shear_stress 200, mechanical_strength 70.0 and
\* cell_migration 54.17, each to the decimals written, and interpret_results
\* labels stress 'Optimal - Within native cartilage range', mechanical_strength
\* 'Good - Suitable for load-bearing' and cell_migration 'Fair - Limited cell
\* distribution'.
C22_EndToEndAt60 ==
    /\ (porosity = 60 /\ results # <<>>) =>
          /\ ToDecimals(results["stress"], 19460, 10000, 10000)
          /\ ToDecimals(results["strain"], 80499094, 10000, 10000)
          /\ REq(results["flow_rate"], Lit(5, 10))
          /\ REq(results["shear_stress"], Num(200))
          /\ REq(results["mechanical_strength"], Num(70))
          /\ ToDecimals(results["cell_migration"], 5417, 100, 100)
    /\ (porosity = 60 /\ interpretations # <<>>) =>
          /\ interpretations["stress"] = "Optimal - Within native cartilage range"
          /\ interpretations["mechanical_strength"] = "Good - Suitable for load-bearing"
          /\ interpretations["cell_migration"] = "Fair - Limited cell distribution"

\* C22 witness: the pass at porosity 60 has its bundle and its labels.
C22_Witness ==
    /\ porosity = 60
    /\ pc = "line 996"
    /\ DOMAIN results = AllProperties
    /\ DOMAIN interpretations = AllProperties

\* the stress of C22 is not the float of the literal 1.9460 (C16)
C22_StressNotTheLiteralCase ==
    /\ porosity = 60
    /\ results # <<>>
    /\ ~REq(results["stress"], Lit(19460, 10000))

\* the method of the last interaction with the login page or the sidebar
Interaction(method) == "method" \in DOMAIN last /\ last.method = method

\* the session's logged_in, a session that is not open having none
IsLoggedIn(state) == "logged_in" \in DOMAIN state /\ state.logged_in

\* C29: a run renders a page of the main application only if the session's
\* logged_in is true and the login page only if it is false; logged_in is
\* false when the session is opened, a step makes it true only if it is a
\* login submit whose username is stored with the SHA-256 hex digest of the
\* password typed, and Logout makes it false
C29_AccessGate ==
    /\ [](/\ pc \in MainPages => IsLoggedIn(session_state)
          /\ pc = "login_page" => /\ "logged_in" \in DOMAIN session_state
                                  /\ ~session_state.logged_in)
    /\ [][/\ DOMAIN session_state = {} /\ DOMAIN session_state' # {} => ~IsLoggedIn(session_state')
          /\ ~IsLoggedIn(session_state) /\ IsLoggedIn(session_state') =>
                /\ Interaction("login")'
                /\ last'.username \in DOMAIN users
                /\ users[last'.username].password = sha256_hexdigest(last'.password)
                /\ session_state'.username = last'.username
          /\ Interaction("logout")' => ~IsLoggedIn(session_state') /\ pc' = "login_page"]_vars

\* a session logged in by a login submit and shown a page of the main application
C29_Witness ==
    /\ Interaction("login")
    /\ IsLoggedIn(session_state)
    /\ pc = "home_page"

\* a logout has closed the gate again, the user still being stored
C29_LoggedOutCase ==
    /\ Interaction("logout")
    /\ pc = "login_page"
    /\ session_state.username \in DOMAIN users

\* C30: a registration submit inserts a row iff the password equals its
\* confirmation and the username is not stored, the row being (username,
\* SHA-256 digest of the password, institution, date); with equal passwords
\* and a stored username the message is 'Username already exists' and the
\* table is unchanged; with different passwords nothing is inserted; and no
\* registration changes the session or leaves the login page
C30_Registration ==
    [][Interaction("register")' =>
         LET call == last'
             inserts == /\ call.new_password = call.confirm_password
                        /\ call.new_username \notin DOMAIN users
         IN  /\ inserts =>
                  /\ DOMAIN users' = DOMAIN users \cup {call.new_username}
                  /\ users'[call.new_username] =
                        [password |-> sha256_hexdigest(call.new_password),
                         institution |-> call.institution, created_date |-> call.now]
                  /\ \A u \in DOMAIN users : users'[u] = users[u]
             /\ ~inserts => users' = users
             /\ (call.new_password = call.confirm_password
                 /\ call.new_username \in DOMAIN users) =>
                    call.message = "Username already exists"
             /\ call.new_password # call.confirm_password =>
                    call.message = "Passwords do not match"
             /\ session_state' = session_state
             /\ ~IsLoggedIn(session_state')
             /\ pc' = "login_page"]_vars

\* a duplicate registration has been refused, the stored row being one of
\* another password and another date
C30_Witness ==
    /\ Interaction("register")
    /\ last.message = "Username already exists"
    /\ users[last.new_username].password # sha256_hexdigest(last.new_password)
    /\ users[last.new_username].created_date # last.now

\* a registration with different passwords and a new username
C30_MismatchCase ==
    /\ Interaction("register")
    /\ last.message = "Passwords do not match"
    /\ last.new_username \notin DOMAIN users

\* C23: after any call of get_values, get_bio_properties,
\* generate_stress_strain_values, generate_flow_rate_values,
\* plot_stress_strain, plot_flow_rate, interpret_results or
\* evaluate_tissue_compatibility, every entry of STATISTICAL_PARAMS and of
\* NATIVE_CARTILAGE is what it was at startup
C23_TableReadOnly ==
    /\ params = STATISTICAL_PARAMS
    /\ native_cartilage = NATIVE_CARTILAGE

\* a call of evaluate_tissue_compatibility has changed the profile it scored,
\* and a table of 61 entries is there to be changed
C23_Witness ==
    /\ calls = 1
    /\ "tissue" \in DOMAIN last
    /\ profiles # TissueProfiles
    /\ Cardinality(DOMAIN params) = 61

\* get_bio_properties has returned the migration score of an entry
C23_BioPropertiesCase ==
    /\ Called("get_bio_properties")
    /\ last.result.value[2] # last.porosity_params["cell_migration"].mean

\* the curve generate_stress_strain_values returned last, and its arguments
CurveReturned == Called("generate_stress_strain_values")
StressSamples == last.result.value[1]
StrainSamples == last.result.value[2]
StrainStart ==
    RSub(last.porosity_params["strain"].mean,
         RMul(Num(3), last.porosity_params["strain"].std))
StrainStop ==
    RAdd(last.porosity_params["strain"].mean,
         RMul(Num(3), last.porosity_params["strain"].std))

\* the strain samples go from mean - 3*std to mean + 3*std by equal steps of
\* (stop - start) / 99, within 10^-9
LinearlySpaced ==
    /\ Len(StrainSamples) = 100
    /\ REq(StrainSamples[1], StrainStart)
    /\ REq(StrainSamples[100], StrainStop)
    /\ \A i \in 1..99 :
          /\ RLt(StrainSamples[i], StrainSamples[i + 1])
          /\ Close(RMul(Num(99), RSub(StrainSamples[i + 1], StrainSamples[i])),
                   RSub(StrainStop, StrainStart))

ScoredProperty == CHOOSE p \in DOMAIN last.scaffold_props : TRUE
ScoredValue == last.scaffold_props[ScoredProperty]
ScoredReq == TissueProfiles[last.tissue][ScoredProperty]
ScoredScore == last.result.scores[ScoredProperty]
OneScored == last # NoCall /\ Returned

\* C25: every catalog requirement has 0 < min < optimal; the score of a
\* property is exactly 0.5 at value = min, below 0.5 and within 10^-9 of it at
\* the float next below min, 0 at a negative value and at 0; and of two calls
\* of one profile and property, the one with the greater value has a score
\* at least as great
C25_ScoreMonotone ==
    /\ [](/\ \A t \in Tissues, p \in Range(TraditionalProperties) :
                /\ RLt(Num(0), TissueProfiles[t][p].min)
                /\ RLt(TissueProfiles[t][p].min, TissueProfiles[t][p].optimal)
          /\ OneScored =>
                /\ REq(ScoredValue, ScoredReq.min) => REq(ScoredScore, R(1, 2))
                /\ REq(ScoredValue, FPred(Float(ScoredReq.min))) =>
                      /\ RLt(ScoredScore, R(1, 2))
                      /\ Close(ScoredScore, R(1, 2))
                /\ RLe(ScoredValue, Num(0)) => REq(ScoredScore, Num(0)))
    /\ [][(OneScored /\ OneScored' /\ RLe(ScoredValue, ScoredValue')) =>
             RLe(ScoredScore, ScoredScore')]_vars

\* the float next below min has been scored
C25_Witness ==
    /\ OneScored
    /\ REq(ScoredValue, FPred(Float(ScoredReq.min)))
    /\ RLt(ScoredScore, R(1, 2))
    /\ RLt(Lit(49, 100), ScoredScore)

\* a negative value has been scored
C25_NegativeCase ==
    /\ OneScored
    /\ RLt(ScoredValue, Num(0))
    /\ REq(ScoredScore, Num(0))

\* the cell_migration of the bundle get_values returned last, and the score
\* of its porosity before the clamp
ReturnedMigration == last.result.values["cell_migration"]
RawMigration ==
    MigrationScore(Num(last.porosity), params[last.porosity]["flow_rate"].mean,
                   params[last.porosity]["shear_stress"].mean)

\* C26: the cell_migration get_values returns for a porosity of 31..90 is at
\* least that of the porosity before it; it is 0 at porosity 30 and 100 at
\* porosity 90; and for every porosity of 30..90 it is the score before the
\* clamp, which lies in [0, 100]
C26_MigrationMonotone ==
    (GetValuesCalled /\ Returned) =>
        /\ last.porosity \in 30..90
        /\ last.porosity = 30 => REq(ReturnedMigration, Num(0))
        /\ last.porosity = 90 => REq(ReturnedMigration, Num(100))
        /\ last.porosity > 30 =>
              RLe(get_values(params, last.porosity - 1).values["cell_migration"],
                  ReturnedMigration)
        /\ REq(ReturnedMigration, RawMigration)
        /\ RLe(Num(0), RawMigration) /\ RLe(RawMigration, Num(100))

\* the bundle of porosity 90 has been returned, its migration above that of 89
C26_Witness ==
    /\ GetValuesCalled /\ Returned
    /\ last.porosity = 90
    /\ RLt(get_values(params, 89).values["cell_migration"], ReturnedMigration)

\* the bundle of porosity 30 has been returned
C26_LowestCase ==
    /\ GetValuesCalled /\ Returned
    /\ last.porosity = 30
    /\ REq(RawMigration, Num(0))

\* the order in which a Simulate pass scores the tissues, lines 996 and 1059
PassOrder == <<"articular_cartilage">> \o OtherTissues

\* C27: in a Simulate pass at any porosity of 30..90 the cards are those of
\* articular_cartilage, meniscus, bone_tissue, skin and blood_vessel in this
\* order, each tissue is scored once, a tissue not scored yet has the profile
\* TISSUE_PROPERTIES defines, and every compatibility score shown lies in [0, 1]
C27_PassScoresInUnitInterval ==
    /\ porosity \in 30..90
    /\ Len(rendered) <= Len(PassOrder)
    /\ \A i \in DOMAIN rendered :
          /\ rendered[i].tissue = PassOrder[i]
          /\ InUnitInterval(rendered[i].compatibility_score)
    /\ \A i \in (Len(rendered) + 1)..Len(PassOrder) :
          profiles[PassOrder[i]] = TissueProfiles[PassOrder[i]]

\* the pass at porosity 90 has finished, skin having been scored with
\* cell_migration twice among its critical factors
C27_Witness ==
    /\ pc = "idle"
    /\ porosity = 90
    /\ Len(rendered) = 5
    /\ profiles["skin"].critical_factors = <<"strain", "flow_rate", "cell_migration",
                                             "cell_migration">>
    /\ RLt(Lit(8, 10), rendered[4].compatibility_score)

\* a pass whose first score is halved by the penalty of line 706
C27_PenalisedCase ==
    /\ Len(rendered) = 5
    /\ RLt(results["cell_migration"], Num(45))
    /\ RLt(Num(0), rendered[1].compatibility_score)

\* a call has been made with a bundle that lacks mechanical_strength or
\* cell_migration; the keys it lacks; the properties that get a score
UnitCalled == last # NoCall
MissingPercentages == {"mechanical_strength", "cell_migration"} \ DOMAIN last.scaffold_props
ScoredProperties ==
    (DOMAIN last.scaffold_props \cap Range(TraditionalProperties)
        \cap DOMAIN UnitObjects[last.tissue])
    \cup (DOMAIN last.scaffold_props \cap {"mechanical_strength", "cell_migration"})

\* the factors the call appended to the critical_factors the profile declares
AppendedFactors ==
    LET declared == Get(UnitObjects[last.tissue], "critical_factors", <<>>)
    IN  {last.result.critical_factors[i] :
            i \in (Len(declared) + 1)..Len(last.result.critical_factors)}

\* what the call does of the keys the bundle lacks, once it has returned
MissingKeyHandled ==
    /\ MissingPercentages \cap DOMAIN last.result.scores = {}
    /\ MissingPercentages \cap AppendedFactors = {}
    /\ last.result.final_score = RDiv(last.result.weighted_final, Num(2))

\* C28 as stated: every bundle that lacks the mechanical_strength key or the
\* cell_migration key is scored without error, the missing property getting no
\* score and no place among the critical factors, and the final score being
\* half the aggregated score.
C28_MissingKeyScored ==
    (UnitCalled /\ MissingPercentages # {}) => (Returned /\ MissingKeyHandled)

\* C28, amended: a bundle that lacks the mechanical_strength key or the
\* cell_migration key is scored without error iff one of its properties gets
\* a score, and is then handled as stated; a bundle none of whose properties
\* gets a score raises ZeroDivisionError.
C28_MissingKeyScoredIfAnyScore ==
    (UnitCalled /\ MissingPercentages # {}) =>
        /\ ScoredProperties # {} => (Returned /\ MissingKeyHandled)
        /\ ScoredProperties = {} => last.result.outcome = "ZeroDivisionError"

\* a bundle with a high cell_migration and no mechanical_strength has been
\* scored, its positive score halved
C28_Witness ==
    /\ UnitCalled /\ Returned
    /\ MissingPercentages = {"mechanical_strength"}
    /\ "cell_migration" \in AppendedFactors
    /\ RLt(Num(0), last.result.final_score)
    /\ RMul(last.result.final_score, Num(2)) = last.result.weighted_final

\* the empty bundle has been given to a catalog profile
C28_EmptyBundleCase ==
    /\ UnitCalled
    /\ last.tissue \in Tissues
    /\ DOMAIN last.scaffold_props = {}
    /\ last.result.outcome = "ZeroDivisionError"

====
